---- MODULE Spec2Model ----
(***************************************************************************)
(* RouteLogger: the local store (js/db.js), the sync engine                *)
(* (js/firebase-ops.js), the interchange codec (js/kmz-handler.js) and the *)
(* handlers that drive them (js/app-main.js, the load dialog).             *)
(*                                                                         *)
(* Encoding of JavaScript values:                                          *)
(*   - null / undefined scalar        the string "null"                    *)
(*   - a direction in signed degrees  "deg:0", "deg:90", "deg:-90"         *)
(*   - a facing-enum direction        "facing:backward"                    *)
(*   - a caption                      "txt:<...>", the empty caption "txt:"*)
(*   - a timestamp                    a natural number, 0 when absent      *)
(*   - an optional object             <<>> when null, <<obj>> otherwise    *)
(*   - a coordinate                   an integer count of 1e-6 degrees     *)
(*   - a project name `${base}_${n}`  [base |-> base, n |-> n], n = 0 for  *)
(*                                    the bare base name                   *)
(***************************************************************************)
EXTENDS Integers, Sequences, FiniteSets, TLC

\* ------------------------------------------------------------------ bounds
MaxTracks == 2
MaxPoints == 1
MaxPhotos == 1
MaxWrites == 1
MaxExternals == 2
MaxKey == 3
MaxUploads == 3
MaxItems == 3
MaxRemotePhotos == 3
MaxDocs == 3
MaxExported == 2
MaxRecorded == 3
MaxInFlight == 2

\* ------------------------------------------------------ program constants
\* getUniqueProjectName: the first suffix tried, and the counter limit.
FirstCounter == 2
CounterLimit == 100
\* clearIndexedDBSilent: const maxRetries = 3, and the 200 ms backoff unit.
maxRetries == 3
BackoffUnit == 200

NULL == "null"
None == <<>>
Some(x) == <<x>>

\* JavaScript truthiness of an encoded scalar: null, 0 and "" are falsy.
Falsy(v) == v \in {"null", "deg:0", "txt:"}
\* `v || null`
OrNull(v) == IF Falsy(v) THEN NULL ELSE v

\* ------------------------------------------------------------ value sets
GpsPoints == {[lat |-> 1, lng |-> 2], [lat |-> 2, lng |-> 1]}
Directions == {NULL, "deg:0", "deg:90", "facing:backward"}
Captions == {NULL, "txt:hut"}
Times == {1, 2}
SessionTimes == {1}
ImportTimes == {2}
AppName == "RouteLogger"

\* ------------------------------------------------------------------ state
VARIABLES
    db,                 \* state.db: TRUE when the store handle is open
    tracks,             \* object store 'tracks', in key order
    photos,             \* object store 'photos', in key order
    externals,          \* object store 'externals', in key order
    externalPhotos,     \* object store of external photo assets
    settings,           \* the 'lastPosition' row of the settings store
    keyGen,             \* the key generators of the auto-increment stores
    currentTrackId,     \* state.currentTrackId, 0 when unset
    trackingStartTime,  \* state.trackingStartTime, 0 when null
    trackingData,       \* state.trackingData
    isTracking,         \* state.isTracking
    uiBusy,             \* setUiBusy(true) .. setUiBusy(false)
    currentUser,        \* firebase.auth().currentUser is set
    remote,             \* Firestore collection 'tracks': name -> project record
    blobs,              \* Cloud Storage: photo path -> stored image
    serverTime,         \* the source of FieldValue.serverTimestamp()
    pub,                \* the running saveToFirebase call
    ld,                 \* the running loadDocument call
    imp,                \* the running file import
    rs,                 \* the running full reset
    cdc                 \* the codec round-trip under check

storeVars == <<db, tracks, photos, externals, externalPhotos, settings, keyGen>>
sessionVars == <<currentTrackId, trackingStartTime, trackingData, isTracking>>
remoteVars == <<remote, blobs, serverTime>>
procVars == <<pub, ld, imp, rs, cdc>>
vars == <<storeVars, sessionVars, remoteVars, procVars, uiBusy, currentUser>>

\* ------------------------------------------------------- the local store
\* An auto-increment object store keeps its rows in key order.
RECURSIVE InsertByKey(_, _)
InsertByKey(rows, rec) ==
    IF rows = <<>> THEN <<rec>>
    ELSE IF rec.id < Head(rows).id THEN <<rec>> \o rows
    ELSE <<Head(rows)>> \o InsertByKey(Tail(rows), rec)

HasKey(rows, id) == \E i \in 1..Len(rows) : rows[i].id = id

\* A put that leaves the record as the only row of the store.
PutRowAlone(rows, rec) == <<rec>>

\* IDBObjectStore.put of a record that carries its key: replace the row with
\* that key, or insert the record under it.
PutRow(rows, rec) ==
    IF HasKey(rows, rec.id)
    THEN [i \in 1..Len(rows) |-> IF rows[i].id = rec.id THEN rec ELSE rows[i]]
    ELSE InsertByKey(rows, rec)

\* The key generator after a record with key `id` was stored.
BumpKey(gen, id) == IF id >= gen THEN id + 1 ELSE gen

\* store.add(track) for a track without an id: the row the store keeps.
TrackRow(id, t) ==
    [id |-> id, timestamp |-> t.timestamp, points |-> t.points,
     totalPoints |-> t.totalPoints]

\* store.add(photoRecord) for a photo without an id.
PhotoRow(id, p) ==
    [id |-> id, data |-> p.data, timestamp |-> p.timestamp,
     location |-> p.location, direction |-> p.direction, text |-> p.text]

\* createInitialTrack: the record it adds.
InitialTrackData(timestamp) ==
    [timestamp |-> timestamp, points |-> <<>>, totalPoints |-> 0]

\* saveTrackingDataRealtime: the record it puts.
RealtimeTrackDataBad(id, start, data) ==
    [id |-> id, timestamp |-> start, points |-> data,
     totalPoints |-> IF data = <<>> THEN 0 ELSE Len(data) - 1]

RealtimeTrackData(id, start, data) ==
    [id |-> id, timestamp |-> start, points |-> data, totalPoints |-> Len(data)]

\* saveTrackingDataRealtime: the track store after the call, given the
\* in-memory session; it returns without writing when the handle is closed
\* or no current track id is set.
SaveTrackingDataRealtime(rows, open, id, start, data) ==
    IF ~open \/ id = 0 THEN rows
    ELSE PutRow(rows, RealtimeTrackData(id, start, data))

\* toFixed(5) then parseFloat, on a count of 1e-6 degrees (half away from 0).
ToFixed5(x) ==
    IF x >= 0 THEN ((x + 5) \div 10) * 10 ELSE -(((-x) + 5) \div 10) * 10

\* saveLastPosition: the row it puts.
PositionData(lat, lng, zoom, ts) ==
    [key |-> "lastPosition", lat |-> ToFixed5(lat), lng |-> ToFixed5(lng),
     zoom |-> zoom, timestamp |-> ts]

\* saveLastPosition: the settings row after the call (no write, and no
\* error, when the handle is closed).
SaveLastPosition(row, open, lat, lng, zoom, ts) ==
    IF ~open THEN row ELSE Some(PositionData(lat, lng, zoom, ts))

\* A keyed read that answers a missing row with a made-up one.
GetLastPositionNeverNull(row) ==
    IF row = None THEN Some(PositionData(0, 0, 13, 0)) ELSE row

\* getLastPosition on an open store: the row, or null.
GetLastPosition(row) == row

\* What a put/add reports to its caller: savePhoto, updatePhoto,
\* createInitialTrack and saveExternalData reject when the handle is not
\* open; saveTrackingDataRealtime logs and returns, saveLastPosition returns.
PutOps ==
    {"savePhoto", "updatePhoto", "createInitialTrack", "saveTrackingDataRealtime",
     "saveExternalData", "saveLastPosition"}

PutOutcome(op, open) ==
    IF open THEN "ok"
    ELSE IF op \in {"saveTrackingDataRealtime", "saveLastPosition"} THEN "returned"
    ELSE "NotInitialized"

\* getAllTracks / getAllPhotos / getAllExternalData: request.result || [].
\* On a closed handle the first two reject and getAllExternalData resolves [].
GetAllRows(store, open, rows) ==
    IF open THEN [ok |-> TRUE, result |-> rows]
    ELSE [ok |-> store = "externals", result |-> <<>>]

\* getPhoto(id): the row with that id, or nothing.
GetPhoto(open, rows, id) ==
    IF ~open THEN [ok |-> FALSE, result |-> None]
    ELSE [ok |-> TRUE,
          result |-> IF HasKey(rows, id)
                     THEN Some(CHOOSE r \in {rows[k] : k \in 1..Len(rows)} : r.id = id)
                     ELSE None]

\* config.js DEFAULT_POSITION.
DEFAULT_POSITION == [lat |-> 34853670, lng |-> 135472040, zoom |-> 13]

\* clearRouteLogData: empties the Track and Photo stores only.
ClearedTracks(rows) == <<>>
ClearedPhotos(rows) == <<>>

\* The object stores onupgradeneeded provides for.
SchemaStores == {"tracks", "photos", "settings", "externals"}

\* The database as IndexedDB holds it: the rows of every object store that
\* exists.
Database(stores) ==
    [n \in stores |-> IF n = "tracks" THEN tracks
                      ELSE IF n = "photos" THEN photos
                      ELSE IF n = "settings" THEN settings ELSE externals]

\* An upgrade that creates every store of the schema anew.
UpgradeRecreate(d) == [n \in DOMAIN d \cup SchemaStores |-> <<>>]

\* request.onupgradeneeded: createObjectStore for each store of the schema
\* that objectStoreNames does not contain.
Upgrade(d) ==
    [n \in DOMAIN d \cup SchemaStores |-> IF n \in DOMAIN d THEN d[n] ELSE <<>>]

\* initIndexedDB: indexedDB.open(DB_NAME, DB_VERSION); the upgrade runs when
\* the stored version is older than DB_VERSION.
OpenStore ==
    /\ ~db /\ cdc.pc = "closed"
    /\ LET before == Database(cdc.stores)
           after == IF cdc.stale THEN Upgrade(before) ELSE before
           Rows(n, old) == IF n \in DOMAIN after THEN after[n] ELSE old
       IN  /\ tracks' = Rows("tracks", tracks)
           /\ photos' = Rows("photos", photos)
           /\ settings' = Rows("settings", settings)
           /\ externals' = Rows("externals", externals)
           /\ cdc' = [cdc EXCEPT !.pc = "open", !.stores = DOMAIN after,
                                 !.before = before, !.upgraded = cdc.stale,
                                 !.stale = FALSE]
    /\ db' = TRUE
    /\ UNCHANGED <<externalPhotos, keyGen, sessionVars, uiBusy, currentUser,
                   remoteVars, pub, ld, imp, rs>>

\* The page is closed and a release with a higher DB_VERSION is installed.
Redeploy ==
    /\ db /\ cdc.pc = "open"
    /\ db' = FALSE
    /\ cdc' = [cdc EXCEPT !.pc = "closed", !.stale = TRUE]
    /\ UNCHANGED <<tracks, photos, externals, externalPhotos, settings, keyGen,
                   sessionVars, uiBusy, currentUser, remoteVars, pub, ld, imp, rs>>

\* ------------------------------------------------ idle process records
PubIdle ==
    [pc |-> "idle", base |-> NULL, name |-> [base |-> NULL, n |-> 0],
     counter |-> 0, probes |-> 0, allTracks |-> <<>>, allPhotos |-> <<>>,
     i |-> 0, formattedPhotos |-> <<>>, failed |-> {},
     uploadSuccessCount |-> 0, uploadFailCount |-> 0,
     denied |-> FALSE, probeError |-> FALSE,
     written |-> FALSE, overwrote |-> FALSE, outcome |-> "none"]

LdIdle == [pc |-> "idle", documents |-> <<>>, doc |-> None, i |-> 0, skipped |-> {},
           dataSaveBtnDisabled |-> FALSE,
           tracksBefore |-> <<>>, photosBefore |-> <<>>,
           externalsBefore |-> <<>>, externalPhotosBefore |-> <<>>]

ImpIdle == [pc |-> "idle", entry |-> NULL, file |-> None, type |-> NULL,
            tracks |-> <<>>, photos |-> <<>>, outcome |-> "none",
            tracksBefore |-> <<>>, photosBefore |-> <<>>,
            externalsBefore |-> <<>>, externalPhotosBefore |-> <<>>]

RsIdle == [pc |-> "idle", entry |-> NULL, lastPosition |-> None,
           before |-> None, readBack |-> None, retryCount |-> 0,
           attempts |-> 0, delay |-> 0, outcome |-> "none", second |-> "none"]

CdcIdle == [pc |-> "idle", tracks |-> <<>>, photos |-> <<>>, doc |-> None,
            outTracks |-> <<>>, outPhotos |-> <<>>, type |-> NULL]

\* ---------------------------------------------------------------- Init
\* A fresh install after initApp: the store is open and empty, nothing is
\* being recorded, the anonymous sign-in may or may not have succeeded.
InitStore ==
    /\ db = TRUE
    /\ tracks = <<>>
    /\ photos = <<>>
    /\ externals = <<>>
    /\ externalPhotos = <<>>
    /\ settings = None
    /\ keyGen = [tracks |-> 1, photos |-> 1, externals |-> 1, externalPhotos |-> 1,
                 imports |-> 1]

InitSession ==
    /\ currentTrackId = 0
    /\ trackingStartTime = 0
    /\ trackingData = <<>>
    /\ isTracking = FALSE
    /\ uiBusy = FALSE

InitProcs ==
    /\ pub = PubIdle
    /\ ld = LdIdle
    /\ imp = ImpIdle
    /\ rs = RsIdle
    /\ cdc = CdcIdle

Idle == pub.pc \in {"idle", "done"} /\ ld.pc \in {"idle", "done"}
        /\ imp.pc \in {"idle", "done"} /\ rs.pc \in {"idle", "done"}

\* ------------------------------------------------- recording a session
\* startSession(): a new session starts with an empty Track.
StartSession(ts) ==
    /\ Idle /\ ~uiBusy /\ db /\ ~isTracking
    /\ Len(tracks) < MaxTracks /\ keyGen.tracks <= MaxKey
    /\ tracks' = Append(tracks, TrackRow(keyGen.tracks, InitialTrackData(ts)))
    /\ keyGen' = [keyGen EXCEPT !.tracks = @ + 1]
    /\ currentTrackId' = keyGen.tracks
    /\ trackingStartTime' = ts
    /\ trackingData' = <<>>
    /\ isTracking' = TRUE
    /\ UNCHANGED <<db, photos, externals, externalPhotos, settings, uiBusy,
                   currentUser, remoteVars, cdc>>
    /\ pub' = PubIdle /\ ld' = LdIdle /\ imp' = ImpIdle /\ rs' = RsIdle

\* recordTrackPoint(point): append the sampled point, then the realtime save.
RecordTrackPoint(p) ==
    /\ Idle /\ ~uiBusy /\ isTracking
    /\ Len(trackingData) < MaxPoints
    /\ trackingData' = Append(trackingData, p)
    /\ tracks' = SaveTrackingDataRealtime(tracks, db, currentTrackId,
                                          trackingStartTime, trackingData')
    /\ keyGen' = IF db /\ currentTrackId # 0
                 THEN [keyGen EXCEPT !.tracks = BumpKey(@, currentTrackId)]
                 ELSE keyGen
    /\ UNCHANGED <<db, photos, externals, externalPhotos, settings,
                   currentTrackId, trackingStartTime, isTracking, uiBusy,
                   currentUser, remoteVars, cdc>>
    /\ pub' = PubIdle /\ ld' = LdIdle /\ imp' = ImpIdle /\ rs' = RsIdle

\* stopTracking(): recording ends; the session's start time stays set.
StopTracking ==
    /\ Idle /\ ~uiBusy /\ isTracking
    /\ isTracking' = FALSE
    /\ UNCHANGED <<storeVars, currentTrackId, trackingStartTime, trackingData,
                   uiBusy, currentUser, remoteVars, cdc>>
    /\ pub' = PubIdle /\ ld' = LdIdle /\ imp' = ImpIdle /\ rs' = RsIdle

\* The photos the camera hands to capturePhoto(photo).
PhotoInputs ==
    {[data |-> "A0", timestamp |-> 1, location |-> Some([lat |-> 1, lng |-> 2]),
      direction |-> "deg:0", text |-> NULL],
     [data |-> "A0", timestamp |-> 2, location |-> Some([lat |-> 2, lng |-> 1]),
      direction |-> "facing:backward", text |-> "txt:hut"]}

\* capturePhoto(photo): savePhoto adds the record under a fresh key.
SavePhoto(rows, gen, p) == Append(rows, PhotoRow(gen, p))

CapturePhoto(p) ==
    /\ Idle /\ ~uiBusy /\ db /\ isTracking
    /\ Len(photos) < MaxPhotos /\ keyGen.photos <= MaxKey
    /\ photos' = SavePhoto(photos, keyGen.photos, p)
    /\ keyGen' = [keyGen EXCEPT !.photos = @ + 1]
    /\ UNCHANGED <<db, tracks, externals, externalPhotos, settings,
                   sessionVars, uiBusy, currentUser, remoteVars, cdc>>
    /\ pub' = PubIdle /\ ld' = LdIdle /\ imp' = ImpIdle /\ rs' = RsIdle

\* --------------------------------------------------------------- publish
BaseNames == {"trip"}

\* `${baseName}_${counter}`; the bare base name is n = 0.
ProjectName(base, n) == [base |-> base, n |-> n]

\* utils.js formatPositionData: the position is carried over verbatim.
FormatPositionData(p) == p

\* saveToFirebase: one formatted track of the project record.
FormatTrack(t) ==
    [timestamp |-> t.timestamp,
     points |-> [k \in 1..Len(t.points) |-> FormatPositionData(t.points[k])],
     totalPoints |-> t.totalPoints]

\* `tracks/${projectName}/photos/${timestamp}.jpg`
PhotoPath(name, photo) == [project |-> name, ts |-> photo.timestamp]

\* uploadPhotosToStorage: the entry pushed for an uploaded photo.
FormatPhoto(name, photo) ==
    [url |-> PhotoPath(name, photo), storagePath |-> PhotoPath(name, photo),
     timestamp |-> photo.timestamp, direction |-> OrNull(photo.direction),
     location |-> FormatPositionData(photo.location),
     text |-> OrNull(photo.text)]

\* saveToFirebase: the project record it writes.
ProjectData(p, start, createdAt) ==
    [userId |-> "uid", startTime |-> start, createdAt |-> createdAt,
     tracks |-> [k \in 1..Len(p.allTracks) |-> FormatTrack(p.allTracks[k])],
     photos |-> p.formattedPhotos,
     tracksCount |-> Len(p.allTracks), photosCount |-> Len(p.allPhotos)]

\* projectRef.set(data): the collection with the document written under name.
SetDoc(docs, name, data) ==
    [n \in DOMAIN docs \cup {name} |-> IF n = name THEN data ELSE docs[n]]

\* saveToFirebase without its check of firebase.auth().currentUser.
PublishStartNoAuthCheck(base, denied) ==
    /\ Idle /\ ~uiBusy /\ ~isTracking
    /\ serverTime < MaxWrites
    /\ IF trackingStartTime = 0
       THEN pub' = [PubIdle EXCEPT !.pc = "done", !.base = base,
                                   !.outcome = "NoData"]
       ELSE pub' = [PubIdle EXCEPT !.pc = "probe", !.base = base,
                                   !.denied = denied,
                                   !.name = ProjectName(base, 0),
                                   !.counter = FirstCounter]
    /\ uiBusy' = (trackingStartTime # 0)
    /\ UNCHANGED <<storeVars, sessionVars, currentUser, remoteVars, cdc>>
    /\ ld' = LdIdle /\ imp' = ImpIdle /\ rs' = RsIdle

\* saveToFirebase up to the name resolution: the early returns, or the
\* first probe.  `denied` is the security rules' verdict on this principal.
PublishStart(base, denied) ==
    /\ Idle /\ ~uiBusy /\ ~isTracking
    /\ serverTime < MaxWrites
    /\ IF trackingStartTime = 0
       THEN pub' = [PubIdle EXCEPT !.pc = "done", !.base = base,
                                   !.outcome = "NoData"]
       ELSE IF ~currentUser
       THEN pub' = [PubIdle EXCEPT !.pc = "done", !.base = base,
                                   !.outcome = "AuthRequired"]
       ELSE pub' = [PubIdle EXCEPT !.pc = "probe", !.base = base,
                                   !.denied = denied,
                                   !.name = ProjectName(base, 0),
                                   !.counter = FirstCounter]
    /\ uiBusy' = (trackingStartTime # 0 /\ currentUser)
    /\ UNCHANGED <<storeVars, sessionVars, currentUser, remoteVars, cdc>>
    /\ ld' = LdIdle /\ imp' = ImpIdle /\ rs' = RsIdle

\* What one existence probe can answer: the truth, or an error code.
ProbeResults(p) ==
    IF p.denied THEN {"permission-denied"}
    ELSE {IF p.name \in DOMAIN remote THEN "exists" ELSE "empty", "unavailable"}

\* A resolution that keeps the last candidate when the counter passes the limit.
ResolveStepNoLimit(p, res) ==
    IF res # "exists"
    THEN [p EXCEPT !.pc = "read", !.probes = @ + 1,
                   !.probeError = (res # "empty")]
    ELSE IF p.counter + 1 > CounterLimit
    THEN [p EXCEPT !.pc = "read", !.probes = @ + 1,
                   !.name = ProjectName(p.base, p.counter), !.counter = @ + 1]
    ELSE [p EXCEPT !.probes = @ + 1,
                   !.name = ProjectName(p.base, p.counter), !.counter = @ + 1]

\* getUniqueProjectName: one turn of its loop, for a probe that ended `res`.
\* Any error leaves the loop with the candidate just probed.
ResolveStepOffByOne(p, res) ==
    IF res # "exists"
    THEN [p EXCEPT !.pc = "read", !.probes = @ + 1,
                   !.probeError = (res # "empty")]
    ELSE IF p.counter + 1 > CounterLimit
    THEN [p EXCEPT !.pc = "done", !.probes = @ + 1,
                   !.name = ProjectName(p.base, p.counter + 1),
                   !.counter = @ + 1, !.outcome = "NameExhausted"]
    ELSE [p EXCEPT !.probes = @ + 1,
                   !.name = ProjectName(p.base, p.counter + 1),
                   !.counter = @ + 1]

ResolveStep(p, res) ==
    IF res # "exists"
    THEN [p EXCEPT !.pc = "read", !.probes = @ + 1,
                   !.probeError = (res # "empty")]
    ELSE IF p.counter + 1 > CounterLimit
    THEN [p EXCEPT !.pc = "done", !.probes = @ + 1,
                   !.name = ProjectName(p.base, p.counter),
                   !.counter = @ + 1, !.outcome = "NameExhausted"]
    ELSE [p EXCEPT !.probes = @ + 1,
                   !.name = ProjectName(p.base, p.counter), !.counter = @ + 1]

Probe(res) ==
    /\ pub.pc = "probe"
    /\ res \in ProbeResults(pub)
    /\ pub' = ResolveStep(pub, res)
    /\ uiBusy' = (pub'.pc # "done")
    /\ UNCHANGED <<storeVars, sessionVars, currentUser, remoteVars, ld, imp,
                   rs, cdc>>

\* getAllTracks / getAllPhotos, then the entry of uploadPhotosToStorage.
ReadLocal ==
    /\ pub.pc = "read"
    /\ IF ~db
       THEN /\ pub' = [pub EXCEPT !.pc = "done", !.outcome = "NotInitialized"]
            /\ uiBusy' = FALSE
       ELSE /\ pub' = IF ~currentUser /\ Len(photos) > 0
                      THEN [pub EXCEPT !.pc = "write", !.allTracks = tracks,
                                       !.allPhotos = photos,
                                       !.uploadFailCount = Len(photos)]
                      ELSE [pub EXCEPT
                               !.pc = IF Len(photos) > 0 THEN "upload" ELSE "write",
                               !.allTracks = tracks, !.allPhotos = photos]
            /\ uiBusy' = uiBusy
    /\ UNCHANGED <<storeVars, sessionVars, currentUser, remoteVars, ld, imp,
                   rs, cdc>>

\* What the upload of one photo can end in: base64ToBlob throws on a photo
\* without data; put or getDownloadURL may fail.
UploadResults(photo) ==
    IF photo.data = NULL THEN {"noData"} ELSE {"ok", "putFailed", "urlFailed"}

\* uploadPhotosToStorage: one turn of its loop, photo i + 1 ending in `res`.
UploadStepAbort(p, res) ==
    LET photo == p.allPhotos[p.i + 1]
        q == IF res = "ok"
             THEN [p EXCEPT !.i = @ + 1,
                            !.formattedPhotos = Append(@, FormatPhoto(p.name, photo)),
                            !.uploadSuccessCount = @ + 1]
             ELSE [p EXCEPT !.i = Len(p.allPhotos), !.failed = @ \cup {p.i + 1},
                            !.uploadFailCount = @ + 1]
    IN  [q EXCEPT !.pc = IF q.i = Len(q.allPhotos) THEN "write" ELSE "upload"]

\* The loop leaving for the record write after its first turn.
UploadStepEarlyWrite(p, res) ==
    LET photo == p.allPhotos[p.i + 1]
        q == IF res = "ok"
             THEN [p EXCEPT !.i = @ + 1,
                            !.formattedPhotos = Append(@, FormatPhoto(p.name, photo)),
                            !.uploadSuccessCount = @ + 1]
             ELSE [p EXCEPT !.i = @ + 1, !.failed = @ \cup {p.i + 1},
                            !.uploadFailCount = @ + 1]
    IN  [q EXCEPT !.pc = "write"]

UploadStep(p, res) ==
    LET photo == p.allPhotos[p.i + 1]
        q == IF res = "ok"
             THEN [p EXCEPT !.i = @ + 1,
                            !.formattedPhotos = Append(@, FormatPhoto(p.name, photo)),
                            !.uploadSuccessCount = @ + 1]
             ELSE [p EXCEPT !.i = @ + 1, !.failed = @ \cup {p.i + 1},
                            !.uploadFailCount = @ + 1]
    IN  [q EXCEPT !.pc = IF q.i = Len(q.allPhotos) THEN "write" ELSE "upload"]

Upload(res) ==
    /\ pub.pc = "upload"
    /\ res \in UploadResults(pub.allPhotos[pub.i + 1])
    /\ pub' = UploadStep(pub, res)
    /\ blobs' = IF res \in {"ok", "urlFailed"}
                THEN SetDoc(blobs, PhotoPath(pub.name, pub.allPhotos[pub.i + 1]),
                            pub.allPhotos[pub.i + 1].data)
                ELSE blobs
    /\ UNCHANGED <<storeVars, sessionVars, uiBusy, currentUser, remote,
                   serverTime, ld, imp, rs, cdc>>

\* projectRef.set(projectData): a denied principal's write fails, any write
\* may fail in transport.
WriteResults(p) == IF p.denied THEN {"failed"} ELSE {"ok", "failed"}

WriteProject(res) ==
    /\ pub.pc = "write"
    /\ res \in WriteResults(pub)
    /\ IF res = "ok"
       THEN /\ remote' = SetDoc(remote, pub.name,
                                ProjectData(pub, trackingStartTime, serverTime + 1))
            /\ serverTime' = serverTime + 1
            /\ pub' = [pub EXCEPT !.pc = "done", !.written = TRUE,
                                  !.overwrote = (pub.name \in DOMAIN remote),
                                  !.outcome = "saved"]
       ELSE /\ UNCHANGED <<remote, serverTime>>
            /\ pub' = [pub EXCEPT !.pc = "done", !.outcome = "WriteFailed"]
    /\ uiBusy' = FALSE
    /\ UNCHANGED <<storeVars, sessionVars, currentUser, blobs, ld, imp, rs, cdc>>

\* ------------------------------------------------------------------ load
\* canvas.toDataURL('image/jpeg', 0.9): the downloaded image, re-encoded.
Reencode(d) == IF d = NULL THEN NULL ELSE "A1"

\* restoreTracks: store.add(track) for every remote track, in order; the
\* remote tracks carry no id, so each gets the next key.
RECURSIVE RestoreTracks(_, _, _)
RestoreTracksReversed(rows, gen, rts) ==
    IF rts = <<>> THEN rows
    ELSE RestoreTracks(Append(rows, TrackRow(gen, rts[Len(rts)])), gen + 1,
                       SubSeq(rts, 1, Len(rts) - 1))

\* A restore that hands every track the same key.
RestoreTracksOneKey(rows, gen, rts) ==
    rows \o [k \in 1..Len(rts) |-> TrackRow(gen, rts[k])]

RestoreTracks(rows, gen, rts) ==
    IF rts = <<>> THEN rows
    ELSE RestoreTracks(Append(rows, TrackRow(gen, Head(rts))), gen + 1, Tail(rts))

\* restorePhotos: the record built from one remote photo and its download.
PhotoRecord(photoData, base64) ==
    [data |-> base64, timestamp |-> photoData.timestamp,
     direction |-> OrNull(photoData.direction),
     location |-> photoData.location, text |-> OrNull(photoData.text)]

\* documents.sort((a, b) => dateB - dateA) with a missing createdAt read as
\* 0; Array.prototype.sort is stable.
SortDocumentsAscending(docs) ==
    LET RECURSIVE Ins(_, _)
        Ins(d, sorted) ==
            IF sorted = <<>> THEN <<d>>
            ELSE IF Head(sorted).data.createdAt <= d.data.createdAt
            THEN <<Head(sorted)>> \o Ins(d, Tail(sorted))
            ELSE <<d>> \o sorted
        RECURSIVE Srt(_, _)
        Srt(rest, sorted) ==
            IF rest = <<>> THEN sorted ELSE Srt(Tail(rest), Ins(Head(rest), sorted))
    IN  Srt(docs, <<>>)

SortDocuments(docs) ==
    LET RECURSIVE Ins(_, _)
        Ins(d, sorted) ==
            IF sorted = <<>> THEN <<d>>
            ELSE IF Head(sorted).data.createdAt >= d.data.createdAt
            THEN <<Head(sorted)>> \o Ins(d, Tail(sorted))
            ELSE <<d>> \o sorted
        RECURSIVE Srt(_, _)
        Srt(rest, sorted) ==
            IF rest = <<>> THEN sorted ELSE Srt(Tail(rest), Ins(Head(rest), sorted))
    IN  Srt(docs, <<>>)

\* reloadFromFirebase: the whole collection is fetched in the order the
\* server answers (`names`), sorted, and handed to the document list dialog.
ReloadFromFirebase(names) ==
    /\ Idle /\ ~uiBusy
    /\ Len(names) = Cardinality(DOMAIN remote)
    /\ {names[k] : k \in 1..Len(names)} = DOMAIN remote
    /\ ld' = IF ~currentUser \/ names = <<>> THEN LdIdle
             ELSE [LdIdle EXCEPT !.documents =
                      SortDocuments([k \in 1..Len(names) |->
                                        [id |-> names[k], data |-> remote[names[k]]]])]
    /\ UNCHANGED <<storeVars, sessionVars, uiBusy, currentUser, remoteVars, cdc>>
    /\ pub' = PubIdle /\ imp' = ImpIdle /\ rs' = RsIdle

\* loadDocument picked from the document list: the store is opened if it
\* is not, and the document is held for the steps that follow.
LoadStart(n) ==
    /\ Idle /\ ~uiBusy /\ ~isTracking /\ currentUser
    /\ n \in DOMAIN remote
    /\ keyGen.tracks + Len(remote[n].tracks) <= MaxKey + 1
    /\ keyGen.photos + Len(remote[n].photos) <= MaxKey + 1
    /\ ld' = [LdIdle EXCEPT !.pc = "clear", !.doc = Some([id |-> n, data |-> remote[n]]),
                            !.tracksBefore = tracks, !.photosBefore = photos,
                            !.externalsBefore = externals,
                            !.externalPhotosBefore = externalPhotos]
    /\ db' = TRUE
    /\ uiBusy' = TRUE
    /\ UNCHANGED <<tracks, photos, externals, externalPhotos, settings, keyGen,
                   sessionVars, currentUser, remoteVars, cdc>>
    /\ pub' = PubIdle /\ imp' = ImpIdle /\ rs' = RsIdle

\* await clearRouteLogData()
LoadClearSkipped ==
    /\ ld.pc = "clear"
    /\ ld' = [ld EXCEPT !.pc = "cleared"]
    /\ UNCHANGED <<storeVars, sessionVars, uiBusy, currentUser, remoteVars,
                   pub, imp, rs, cdc>>

LoadClear ==
    /\ ld.pc = "clear"
    /\ tracks' = ClearedTracks(tracks)
    /\ photos' = ClearedPhotos(photos)
    /\ currentTrackId' = 0
    /\ trackingData' = <<>>
    /\ ld' = [ld EXCEPT !.pc = "cleared"]
    /\ UNCHANGED <<db, externals, externalPhotos, settings, keyGen,
                   trackingStartTime, isTracking, uiBusy, currentUser,
                   remoteVars, pub, imp, rs, cdc>>

\* if (data.tracks && data.tracks.length > 0) await restoreTracks(...)
LoadTracks ==
    /\ ld.pc = "cleared"
    /\ LET rts == ld.doc[1].data.tracks
       IN  /\ tracks' = RestoreTracks(tracks, keyGen.tracks, rts)
           /\ keyGen' = [keyGen EXCEPT !.tracks = @ + Len(rts)]
    /\ ld' = [ld EXCEPT !.pc = IF Len(ld.doc[1].data.photos) > 0
                               THEN "photos" ELSE "finish"]
    /\ UNCHANGED <<db, photos, externals, externalPhotos, settings,
                   sessionVars, uiBusy, currentUser, remoteVars, pub, imp, rs, cdc>>

\* A remote photo entry's missing url or storagePath.
NoPath == [project |-> [base |-> NULL, n |-> 0], ts |-> 0]

\* restorePhotos: the reference the image is fetched by: the storagePath,
\* else the url, else none.
BlobRef(photoData) ==
    IF photoData.storagePath # NoPath THEN photoData.storagePath ELSE photoData.url

\* What the download of one remote photo can end in: an entry without any
\* reference is passed over, a download can fail or yield nothing.
DownloadResults(photoData) ==
    IF BlobRef(photoData) # NoPath /\ BlobRef(photoData) \in DOMAIN blobs
    THEN {"ok", "failed"} ELSE {"failed"}

\* A loop that gives up at the first failed download.
LoadPhotoAbort(res) ==
    /\ ld.pc = "photos"
    /\ res \in DownloadResults(ld.doc[1].data.photos[ld.i + 1])
    /\ LET photoData == ld.doc[1].data.photos[ld.i + 1]
       IN  IF res = "ok"
           THEN /\ photos' = SavePhoto(photos, keyGen.photos,
                                       PhotoRecord(photoData,
                                           Reencode(blobs[BlobRef(photoData)])))
                /\ keyGen' = [keyGen EXCEPT !.photos = @ + 1]
                /\ ld' = [ld EXCEPT !.i = @ + 1,
                            !.pc = IF ld.i + 1 = Len(ld.doc[1].data.photos)
                                   THEN "finish" ELSE "photos"]
           ELSE /\ UNCHANGED <<photos, keyGen>>
                /\ ld' = [ld EXCEPT !.i = @ + 1, !.skipped = @ \cup {ld.i + 1},
                                    !.pc = "finish"]
    /\ UNCHANGED <<db, tracks, externals, externalPhotos, settings,
                   sessionVars, uiBusy, currentUser, remoteVars, pub, imp, rs, cdc>>

\* restorePhotos: one turn of its loop; the download of photo i + 1 either
\* yields the image or fails, and a failed one is skipped.
LoadPhoto(res) ==
    /\ ld.pc = "photos"
    /\ res \in DownloadResults(ld.doc[1].data.photos[ld.i + 1])
    /\ LET photoData == ld.doc[1].data.photos[ld.i + 1]
       IN  IF res = "ok"
           THEN /\ photos' = SavePhoto(photos, keyGen.photos,
                                       PhotoRecord(photoData,
                                           Reencode(blobs[BlobRef(photoData)])))
                /\ keyGen' = [keyGen EXCEPT !.photos = @ + 1]
                /\ ld' = [ld EXCEPT !.i = @ + 1,
                            !.pc = IF ld.i + 1 = Len(ld.doc[1].data.photos)
                                   THEN "finish" ELSE "photos"]
           ELSE /\ UNCHANGED <<photos, keyGen>>
                /\ ld' = [ld EXCEPT !.i = @ + 1, !.skipped = @ \cup {ld.i + 1},
                            !.pc = IF ld.i + 1 = Len(ld.doc[1].data.photos)
                                   THEN "finish" ELSE "photos"]
    /\ UNCHANGED <<db, tracks, externals, externalPhotos, settings,
                   sessionVars, uiBusy, currentUser, remoteVars, pub, imp, rs, cdc>>

\* updateUiForTrackingState: dataSaveBtn.disabled, from the tracking state.
UpdateUiForTrackingState(tracking) == tracking

\* setUiBusy(isBusy): dataSaveBtn.disabled afterwards.
SetUiBusy(isBusy, tracking) ==
    IF isBusy THEN TRUE ELSE UpdateUiForTrackingState(tracking)

\* A loadDocument without its finally block.
LoadFinishStaysBusy ==
    /\ ld.pc = "finish"
    /\ ld' = [ld EXCEPT !.pc = "done"]
    /\ UNCHANGED <<storeVars, sessionVars, uiBusy, currentUser, remoteVars, pub,
                   imp, rs, cdc>>

\* The rest of loadDocument: markers, dataSaveBtn.disabled = true, the
\* status line, and in its finally block setUiBusy(false).
LoadFinish ==
    /\ ld.pc = "finish"
    /\ ld' = [ld EXCEPT !.pc = "done",
                        !.dataSaveBtnDisabled = SetUiBusy(FALSE, isTracking)]
    /\ uiBusy' = FALSE
    /\ UNCHANGED <<storeVars, sessionVars, currentUser, remoteVars, pub, imp,
                   rs, cdc>>

\* ---------------------------------------------------------------- codec
\* parseFloat of a token that is no number.
NaN == 0 - 1000000000
IsNaN(x) == x = NaN

\* A coordinate as both formats write it: (longitude, latitude).
Coord(lng, lat) == [x |-> lng, y |-> lat]

NoProps == [timestamp |-> 0, photoData |-> NULL, direction |-> NULL, text |-> NULL]

\* A filter that keeps every parsed pair.
SelectValidKeepAll(ps) == ps

RECURSIVE SelectValid(_)
\* .filter(p => !isNaN(p.lat) && !isNaN(p.lng))
SelectValid(ps) ==
    IF ps = <<>> THEN <<>>
    ELSE IF IsNaN(Head(ps).lat) \/ IsNaN(Head(ps).lng) THEN SelectValid(Tail(ps))
    ELSE <<Head(ps)>> \o SelectValid(Tail(ps))

\* ({ lat: parseFloat(parts[1]), lng: parseFloat(parts[0]) })
PointOfCoord(c) == [lat |-> c.y, lng |-> c.x]

\* importKmz, RouteLogger branch: the tracks and photos of the placemarks.
RECURSIVE KmzTracks(_, _)
KmzTracks(pms, now) ==
    IF pms = <<>> THEN <<>>
    ELSE LET pm == Head(pms)
             points == SelectValid([k \in 1..Len(pm.coords) |-> PointOfCoord(pm.coords[k])])
         IN  IF pm.geom = "LineString" /\ Len(points) > 0
             THEN <<[timestamp |-> now, points |-> points, totalPoints |-> Len(points)]>>
                  \o KmzTracks(Tail(pms), now)
             ELSE KmzTracks(Tail(pms), now)

RECURSIVE KmzPhotos(_, _, _)
KmzPhotos(pms, images, now) ==
    IF pms = <<>> THEN <<>>
    ELSE LET pm == Head(pms)
             c == IF pm.coords = <<>> THEN Coord(NaN, NaN) ELSE pm.coords[1]
             found == pm.img # NULL /\ \E k \in 1..Len(images) : images[k] = pm.img
         IN  IF pm.geom = "Point" /\ ~IsNaN(c.y) /\ ~IsNaN(c.x) /\ found
             THEN <<[data |-> "A0", timestamp |-> now,
                     location |-> Some([lat |-> c.y, lng |-> c.x]),
                     direction |-> NULL, text |-> NULL]>>
                  \o KmzPhotos(Tail(pms), images, now)
             ELSE KmzPhotos(Tail(pms), images, now)

\* toGeoJSON.kml, then the tagging of every feature with the import id.
TagFeatures(fs, importId) ==
    [k \in 1..Len(fs) |-> [geom |-> fs[k].geom, coords |-> fs[k].coords,
                            props |-> fs[k].props, importId |-> importId]]

KmlFeatures(pms) ==
    [k \in 1..Len(pms) |-> [geom |-> pms[k].geom, coords |-> pms[k].coords,
                             props |-> NoProps]]

\* An archive import that converts without looking for the converter.
ImportKmzNoCapabilityCheck(file, now, importId, hasToGeoJSON) ==
    IF file.fmt # "kmz" \/ ~file.hasKml
    THEN [type |-> "CodecError", tracks |-> <<>>, photos |-> <<>>,
          geojson |-> None, images |-> <<>>]
    ELSE IF file.author
    THEN [type |-> "RouteLogger", tracks |-> KmzTracks(file.placemarks, now),
          photos |-> KmzPhotos(file.placemarks, file.images, now),
          geojson |-> None, images |-> <<>>]
    ELSE [type |-> "other", tracks |-> <<>>, photos |-> <<>>,
          geojson |-> Some([creator |-> NULL,
                            features |-> TagFeatures(KmlFeatures(file.placemarks), importId)]),
          images |-> file.images]

\* importKmz: what it returns, and what it asks the store to persist.
ImportKmz(file, now, importId, hasToGeoJSON) ==
    IF file.fmt # "kmz" \/ ~file.hasKml
    THEN [type |-> "CodecError", tracks |-> <<>>, photos |-> <<>>,
          geojson |-> None, images |-> <<>>]
    ELSE IF file.author
    THEN [type |-> "RouteLogger", tracks |-> KmzTracks(file.placemarks, now),
          photos |-> KmzPhotos(file.placemarks, file.images, now),
          geojson |-> None, images |-> <<>>]
    ELSE IF ~hasToGeoJSON
    THEN [type |-> "CodecError", tracks |-> <<>>, photos |-> <<>>,
          geojson |-> None, images |-> <<>>]
    ELSE [type |-> "other", tracks |-> <<>>, photos |-> <<>>,
          geojson |-> Some([creator |-> NULL,
                            features |-> TagFeatures(KmlFeatures(file.placemarks), importId)]),
          images |-> file.images]

\* importGeoJson, RouteLogger branch.
RECURSIVE GeoJsonTracks(_, _)
GeoJsonTracks(fs, now) ==
    IF fs = <<>> THEN <<>>
    ELSE LET f == Head(fs)
             points == [k \in 1..Len(f.coords) |-> PointOfCoord(f.coords[k])]
         IN  IF f.geom = "LineString" /\ Len(points) > 0
             THEN <<[timestamp |-> IF f.props.timestamp = 0 THEN now
                                   ELSE f.props.timestamp,
                     points |-> points, totalPoints |-> Len(points)]>>
                  \o GeoJsonTracks(Tail(fs), now)
             ELSE GeoJsonTracks(Tail(fs), now)

\* One photo of the RouteLogger branch of importGeoJson.
GeoJsonPhoto(f, now) ==
    [data |-> OrNull(f.props.photoData),
     timestamp |-> IF f.props.timestamp = 0 THEN now ELSE f.props.timestamp,
     location |-> Some(PointOfCoord(f.coords[1])),
     direction |-> OrNull(f.props.direction), text |-> OrNull(f.props.text)]

RECURSIVE GeoJsonPhotos(_, _)
GeoJsonPhotos(fs, now) ==
    IF fs = <<>> THEN <<>>
    ELSE IF Head(fs).geom = "Point"
    THEN <<GeoJsonPhoto(Head(fs), now)>> \o GeoJsonPhotos(Tail(fs), now)
    ELSE GeoJsonPhotos(Tail(fs), now)

\* const [lng, lat] = feature.geometry.coordinates throws a TypeError on a
\* point feature that has no coordinates, and the throw rejects the import.
DestructuringThrows(fs) ==
    \E k \in 1..Len(fs) : fs[k].geom = "Point" /\ fs[k].coords = <<>>

\* geojson.creator === 'RouteLogger'
IsRouteLoggerGeoJson(doc) == doc.creator = AppName

\* importGeoJson: what it returns, and what it asks the store to persist.
ImportGeoJson(file, now, importId) ==
    IF file.fmt # "geojson" \/ ~file.parses
    THEN [type |-> "CodecError", tracks |-> <<>>, photos |-> <<>>,
          geojson |-> None, images |-> <<>>]
    ELSE IF IsRouteLoggerGeoJson(file) /\ DestructuringThrows(file.features)
    THEN [type |-> "CodecError", tracks |-> <<>>, photos |-> <<>>,
          geojson |-> None, images |-> <<>>]
    ELSE IF IsRouteLoggerGeoJson(file)
    THEN [type |-> "RouteLogger", tracks |-> GeoJsonTracks(file.features, now),
          photos |-> GeoJsonPhotos(file.features, now),
          geojson |-> None, images |-> <<>>]
    ELSE [type |-> "other", tracks |-> <<>>, photos |-> <<>>,
          geojson |-> Some([creator |-> file.creator,
                            features |-> TagFeatures(file.features, importId)]),
          images |-> <<>>]

\* ---------------------------------------------------------- file import
\* The files the user can pick.
KmzFiles ==
    {[fmt |-> "kmz", name |-> "own.kmz", hasKml |-> TRUE, author |-> TRUE,
      placemarks |-> <<[geom |-> "LineString",
                        coords |-> <<Coord(2, 1), Coord(NaN, 1), Coord(1, 2)>>,
                        img |-> NULL],
                       [geom |-> "Point", coords |-> <<Coord(2, 1)>>,
                        img |-> "images/photo_1.jpg"]>>,
      images |-> <<"images/photo_1.jpg">>],
     [fmt |-> "kmz", name |-> "other.kmz", hasKml |-> TRUE, author |-> FALSE,
      placemarks |-> <<[geom |-> "Point", coords |-> <<Coord(1, 1)>>,
                        img |-> "files/hut.png"]>>,
      images |-> <<"files/hut.png">>],
     [fmt |-> "kmz", name |-> "empty.kmz", hasKml |-> FALSE, author |-> FALSE,
      placemarks |-> <<>>, images |-> <<>>]}

GeoJsonFiles ==
    {[fmt |-> "geojson", name |-> "own.geojson", parses |-> TRUE,
      creator |-> AppName,
      features |-> <<[geom |-> "LineString", coords |-> <<Coord(2, 1), Coord(1, 2)>>,
                      props |-> [NoProps EXCEPT !.timestamp = 1]],
                     [geom |-> "Point", coords |-> <<Coord(2, 1)>>,
                      props |-> [timestamp |-> 2, photoData |-> "A0",
                                 direction |-> "deg:90", text |-> NULL]]>>],
     [fmt |-> "geojson", name |-> "other.geojson", parses |-> TRUE,
      creator |-> NULL,
      features |-> <<[geom |-> "Point", coords |-> <<Coord(1, 1)>>,
                      props |-> NoProps]>>],
     [fmt |-> "geojson", name |-> "bad.geojson", parses |-> FALSE,
      creator |-> NULL, features |-> <<>>]}

\* The placemarks of an archive's markup, or the features of a plain document.
FileItems(file) == IF file.fmt = "kmz" THEN file.placemarks ELSE file.features

\* The application's creator marker: the author string inside the archive's
\* markup, or the top-level creator of the plain document.
HasMarker(file) ==
    IF file.fmt = "kmz" THEN file.hasKml /\ file.author
    ELSE file.parses /\ file.creator = AppName

\* saveExternalData: the row it adds.
ExternalData(id, type, name, data, ts) ==
    [id |-> id, type |-> type, name |-> name, data |-> data, timestamp |-> ts]

\* A put under a fixed key in place of the add: the new row takes the
\* place of the rows before it.
SaveExternalDataReplace(rows, id, type, name, data, ts) ==
    <<ExternalData(id, type, name, data, ts)>>

SaveExternalData(rows, id, type, name, data, ts) ==
    Append(rows, ExternalData(id, type, name, data, ts))

\* saveExternalPhoto for every image file of the archive, in archive order.
SaveExternalPhotos(rows, gen, importId, images, ts) ==
    rows \o [k \in 1..Len(images) |->
                [id |-> gen + k - 1, importId |-> importId,
                 fileName |-> images[k], blob |-> "A0", timestamp |-> ts]]

\* `import_${Date.now()}_${random}`: a value no earlier import has used.
ImportId(n) == [import |-> n]

\* The codec call of an entry point, with what it persists by itself.
\*   fileInput     app-main.js, the Load button's file input
\*   kmzInput      the load dialog's handleKmzUpload
ImportCodec(entry, file, now, hasToGeoJSON) ==
    IF entry = "fileInput" /\ file.fmt = "geojson"
    THEN ImportGeoJson(file, now, ImportId(keyGen.imports))
    ELSE ImportKmz(file, now, ImportId(keyGen.imports), hasToGeoJSON)

\* A file was picked in the Load button's file input or in the load dialog's
\* KMZ input: the codec runs, a foreign document is persisted by the codec,
\* a native result waits for the user's confirmation.
ImportFile(entry, file, now, hasToGeoJSON) ==
    /\ Idle /\ ~uiBusy /\ ~isTracking
    /\ entry \in {"fileInput", "kmzInput"}
    /\ entry = "kmzInput" => file.fmt = "kmz"
    /\ HasMarker(file) \/ Len(externals) < MaxExternals
    /\ keyGen.tracks + Len(FileItems(file)) <= MaxKey + 1
    /\ keyGen.photos + Len(FileItems(file)) <= MaxKey + 1
    /\ LET r == ImportCodec(entry, file, now, hasToGeoJSON)
           stored == r.type = "other" /\ db
       IN  /\ imp' = [ImpIdle EXCEPT
                        !.pc = IF r.type = "RouteLogger" THEN "confirm" ELSE "done",
                        !.entry = entry, !.file = Some(file),
                        !.type = IF r.type = "other" /\ ~db THEN "NotInitialized"
                                 ELSE r.type,
                        !.tracks = r.tracks, !.photos = r.photos,
                        !.tracksBefore = tracks, !.photosBefore = photos,
                        !.externalsBefore = externals,
                        !.externalPhotosBefore = externalPhotos]
           /\ externals' = IF stored
                           THEN SaveExternalData(externals, keyGen.externals, "geojson",
                                                 file.name, r.geojson[1], now)
                           ELSE externals
           /\ externalPhotos' = IF stored
                                THEN SaveExternalPhotos(externalPhotos,
                                         keyGen.externalPhotos,
                                         ImportId(keyGen.imports), r.images, now)
                                ELSE externalPhotos
           /\ keyGen' = IF stored
                        THEN [keyGen EXCEPT !.externals = @ + 1,
                                            !.externalPhotos = @ + Len(r.images),
                                            !.imports = @ + 1]
                        ELSE keyGen
           /\ uiBusy' = (r.type = "RouteLogger")
    /\ UNCHANGED <<db, tracks, photos, settings, sessionVars, currentUser,
                   remoteVars, cdc>>
    /\ pub' = PubIdle /\ ld' = LdIdle /\ rs' = RsIdle

\* handleGeoJSONUpload: the load dialog's GeoJSON input parses the file and
\* saves it as an external dataset.
HandleGeoJSONUpload(file, now) ==
    /\ Idle /\ ~uiBusy /\ ~isTracking
    /\ file.fmt = "geojson"
    /\ Len(externals) < MaxExternals
    /\ LET stored == file.parses /\ db
       IN  /\ imp' = [ImpIdle EXCEPT
                        !.pc = "done", !.entry = "geoJsonInput", !.file = Some(file),
                        !.type = IF ~file.parses THEN "CodecError"
                                 ELSE IF ~db THEN "NotInitialized" ELSE "other",
                        !.tracksBefore = tracks, !.photosBefore = photos,
                        !.externalsBefore = externals,
                        !.externalPhotosBefore = externalPhotos]
           /\ externals' = IF stored
                           THEN SaveExternalData(externals, keyGen.externals, "geojson",
                                    file.name,
                                    [creator |-> file.creator, features |-> file.features],
                                    now)
                           ELSE externals
           /\ keyGen' = IF stored THEN [keyGen EXCEPT !.externals = @ + 1] ELSE keyGen
    /\ UNCHANGED <<db, tracks, photos, externalPhotos, settings, sessionVars,
                   uiBusy, currentUser, remoteVars, cdc>>
    /\ pub' = PubIdle /\ ld' = LdIdle /\ rs' = RsIdle

\* confirm('...'): declined, the import ends with the store untouched.
ImportConfirm(yes) ==
    /\ imp.pc = "confirm"
    /\ imp' = [imp EXCEPT !.pc = IF yes THEN "clear" ELSE "done",
                          !.outcome = IF yes THEN "none" ELSE "declined"]
    /\ uiBusy' = yes
    /\ UNCHANGED <<storeVars, sessionVars, currentUser, remoteVars, pub, ld,
                   rs, cdc>>

\* await clearRouteLogData()
ImportClear ==
    /\ imp.pc = "clear"
    /\ IF db
       THEN /\ tracks' = ClearedTracks(tracks)
            /\ photos' = ClearedPhotos(photos)
            /\ currentTrackId' = 0
            /\ trackingData' = <<>>
            /\ imp' = [imp EXCEPT !.pc = "cleared"]
            /\ uiBusy' = uiBusy
       ELSE /\ UNCHANGED <<tracks, photos, currentTrackId, trackingData>>
            /\ imp' = [imp EXCEPT !.pc = "done", !.outcome = "NotInitialized"]
            /\ uiBusy' = FALSE
    /\ UNCHANGED <<db, externals, externalPhotos, settings, keyGen,
                   trackingStartTime, isTracking, currentUser, remoteVars,
                   pub, ld, rs, cdc>>

\* restoreTrack(track): the track is added as a new row.
RestoreTrack(rows, gen, track) == Append(rows, TrackRow(gen, track))

RECURSIVE RestoreAll(_, _, _)
RestoreAll(rows, gen, ts) ==
    IF ts = <<>> THEN rows
    ELSE RestoreAll(RestoreTrack(rows, gen, Head(ts)), gen + 1, Tail(ts))

RECURSIVE SaveAllPhotos(_, _, _)
SaveAllPhotos(rows, gen, ps) ==
    IF ps = <<>> THEN rows
    ELSE SaveAllPhotos(SavePhoto(rows, gen, Head(ps)), gen + 1, Tail(ps))

\* The restore loops of a confirmed native import, then location.reload():
\* the page starts again with the store open and no session in memory.
ImportRestore ==
    /\ imp.pc = "cleared"
    /\ tracks' = RestoreAll(tracks, keyGen.tracks, imp.tracks)
    /\ photos' = SaveAllPhotos(photos, keyGen.photos, imp.photos)
    /\ keyGen' = [keyGen EXCEPT !.tracks = @ + Len(imp.tracks),
                                !.photos = @ + Len(imp.photos)]
    /\ imp' = [imp EXCEPT !.pc = "done", !.outcome = "restored"]
    /\ currentTrackId' = 0
    /\ trackingStartTime' = 0
    /\ trackingData' = <<>>
    /\ isTracking' = FALSE
    /\ uiBusy' = FALSE
    /\ UNCHANGED <<db, externals, externalPhotos, settings, currentUser,
                   remoteVars, pub, ld, rs, cdc>>

\* ------------------------------------------------------------ full reset
\* The map was moved: saveLastPosition(lat, lng, zoom).
MapPositions ==
    {[lat |-> 34853667, lng |-> 135472041, zoom |-> 13],
     [lat |-> 35000004, lng |-> 0 - 135472046, zoom |-> 16],
     [lat |-> 0 - 1234565, lng |-> 139000000, zoom |-> 16]}

MapMoved(pos, ts) ==
    /\ settings' = SaveLastPosition(settings, db, pos.lat, pos.lng, pos.zoom, ts)
    /\ UNCHANGED <<db, tracks, photos, externals, externalPhotos, keyGen,
                   sessionVars, uiBusy, currentUser, remoteVars, procVars>>

\* What the position re-seeded after a reset is taken from.
SeedPositionDefaultOnly(lastPosition) == DEFAULT_POSITION

SeedPosition(lastPosition) ==
    IF lastPosition # None THEN lastPosition[1] ELSE DEFAULT_POSITION

\* clearIndexedDBSilent ("silent") / clearIndexedDB after its confirm
\* ("confirmed"), up to the close of the handle: getLastPosition rejects on
\* a closed handle, which ends the reset.
ResetStart(entry) ==
    /\ Idle /\ ~uiBusy
    /\ entry \in {"silent", "confirmed"}
    /\ IF ~db
       THEN /\ rs' = [RsIdle EXCEPT !.pc = IF entry = "silent" THEN "failed" ELSE "done",
                                    !.entry = entry, !.before = settings,
                                    !.outcome = "NotInitialized"]
            /\ db' = db
       ELSE /\ rs' = [RsIdle EXCEPT !.pc = "delete", !.entry = entry,
                                    !.before = settings,
                                    !.lastPosition = GetLastPosition(settings)]
            /\ db' = FALSE
    /\ UNCHANGED <<tracks, photos, externals, externalPhotos, settings, keyGen,
                   sessionVars, uiBusy, currentUser, remoteVars, cdc>>
    /\ pub' = PubIdle /\ ld' = LdIdle /\ imp' = ImpIdle

\* After one failed deleteDatabase: clearIndexedDBSilent counts it and
\* either gives up or waits 200 ms times the count; clearIndexedDB reports
\* the failure and stops.
AfterDeleteFailure(r, res) ==
    IF r.entry = "silent"
    THEN IF r.retryCount + 1 >= maxRetries
         THEN [r EXCEPT !.pc = "failed", !.attempts = @ + 1, !.retryCount = @ + 1,
                        !.outcome = IF res = "blocked" THEN "StoreBlocked"
                                    ELSE "DeleteError"]
         ELSE [r EXCEPT !.pc = "backoff", !.attempts = @ + 1, !.retryCount = @ + 1,
                        !.delay = BackoffUnit * (r.retryCount + 1)]
    ELSE [r EXCEPT !.pc = "done", !.attempts = @ + 1,
                   !.outcome = IF res = "blocked" THEN "StoreBlocked"
                               ELSE "DeleteError"]

\* indexedDB.deleteDatabase(DB_NAME) ends in success, blocked or error.
ResetDelete(res) ==
    /\ rs.pc = "delete"
    /\ res \in {"success", "blocked", "error"}
    /\ IF res = "success"
       THEN /\ rs' = [rs EXCEPT !.pc = "reopen", !.attempts = @ + 1]
            /\ tracks' = <<>>
            /\ photos' = <<>>
            /\ externals' = <<>>
            /\ externalPhotos' = <<>>
            /\ settings' = None
            /\ keyGen' = [keyGen EXCEPT !.tracks = 1, !.photos = 1, !.externals = 1,
                                        !.externalPhotos = 1]
       ELSE /\ rs' = AfterDeleteFailure(rs, res)
            /\ UNCHANGED <<tracks, photos, externals, externalPhotos, settings, keyGen>>
    /\ UNCHANGED <<db, sessionVars, uiBusy, currentUser, remoteVars, pub, ld,
                   imp, cdc>>

\* setTimeout(resolve, 200 * retryCount) fires.
ResetBackoff ==
    /\ rs.pc = "backoff"
    /\ rs' = [rs EXCEPT !.pc = "delete"]
    /\ UNCHANGED <<storeVars, sessionVars, uiBusy, currentUser, remoteVars,
                   pub, ld, imp, cdc>>

\* initIndexedDB, the re-seed of lastPosition, the reset of the session.
ResetReopen(ts) ==
    /\ rs.pc = "reopen"
    /\ db' = TRUE
    /\ LET seed == SeedPosition(rs.lastPosition)
       IN  settings' = SaveLastPosition(settings, TRUE, seed.lat, seed.lng, seed.zoom, ts)
    /\ rs' = [rs EXCEPT !.pc = "done", !.outcome = "reset",
                        !.readBack = GetLastPosition(settings')]
    /\ trackingStartTime' = 0
    /\ trackingData' = <<>>
    /\ currentTrackId' = 0
    /\ UNCHANGED <<tracks, photos, externals, externalPhotos, keyGen, isTracking,
                   uiBusy, currentUser, remoteVars, pub, ld, imp, cdc>>

\* The Clear button's handler after clearIndexedDBSilent threw:
\* if (!state.db) await initIndexedDB().
ResetRecover ==
    /\ rs.pc = "failed"
    /\ db' = TRUE
    /\ rs' = [rs EXCEPT !.pc = "done"]
    /\ UNCHANGED <<tracks, photos, externals, externalPhotos, settings, keyGen,
                   sessionVars, uiBusy, currentUser, remoteVars, pub, ld, imp, cdc>>

\* The Clear button clicked again while a reset is between its close and
\* its re-open: the handler holds no flag and the button is never disabled,
\* so a second clearIndexedDBSilent starts; its getLastPosition rejects on
\* the closed handle and the handler goes on to initIndexedDB().
ResetClick ==
    /\ rs.pc \in {"delete", "backoff", "reopen"}
    /\ rs.second = "none"
    /\ rs' = [rs EXCEPT !.second = "recovering"]
    /\ UNCHANGED <<storeVars, sessionVars, uiBusy, currentUser, remoteVars,
                   pub, ld, imp, cdc>>

\* The second handler's initIndexedDB() resolves; an open requested while
\* deleteDatabase is pending waits for it.
ResetSecondRecover ==
    /\ rs.second = "recovering" /\ rs.pc # "delete"
    /\ db' = TRUE
    /\ rs' = [rs EXCEPT !.second = "recovered"]
    /\ UNCHANGED <<tracks, photos, externals, externalPhotos, settings, keyGen,
                   sessionVars, uiBusy, currentUser, remoteVars, pub, ld, imp, cdc>>

\* ------------------------------------------- plain-document round trip
\* exportDocument(tracks, photos): one line feature per Track, one point
\* feature per Photo carrying all its attributes, and the creator marker.
TrackFeature(t) ==
    [geom |-> "LineString",
     coords |-> [k \in 1..Len(t.points) |-> Coord(t.points[k].lng, t.points[k].lat)],
     props |-> [NoProps EXCEPT !.timestamp = t.timestamp]]

PhotoFeature(p) ==
    [geom |-> "Point",
     coords |-> <<Coord(p.location[1].lng, p.location[1].lat)>>,
     props |-> [timestamp |-> p.timestamp, photoData |-> p.data,
                direction |-> p.direction, text |-> p.text]]

ExportDocument(ts, ps) ==
    [fmt |-> "geojson", name |-> "export.geojson", parses |-> TRUE,
     creator |-> AppName,
     features |-> [k \in 1..Len(ts) |-> TrackFeature(ts[k])]
                  \o [k \in 1..Len(ps) |-> PhotoFeature(ps[k])]]

ExportStep ==
    /\ cdc.pc = "input"
    /\ cdc' = [cdc EXCEPT !.pc = "exported",
                          !.doc = Some(ExportDocument(cdc.tracks, cdc.photos))]
    /\ UNCHANGED <<storeVars, sessionVars, uiBusy, currentUser, remoteVars,
                   pub, ld, imp, rs>>

ImportStep(now) ==
    /\ cdc.pc = "exported"
    /\ LET r == ImportGeoJson(cdc.doc[1], now, ImportId(keyGen.imports))
       IN  cdc' = [cdc EXCEPT !.pc = "imported", !.type = r.type,
                              !.outTracks = r.tracks, !.outPhotos = r.photos]
    /\ UNCHANGED <<storeVars, sessionVars, uiBusy, currentUser, remoteVars,
                   pub, ld, imp, rs>>

\* ------------------------------------------------- archive round trip
\* `images/photo_${photo.id}.jpg`
ImageName(id) == "images/photo_" \o ToString(id) \o ".jpg"

\* generateKml, tracks: `${p.lat},${p.lng},0`.
TrackPlacemarkLatFirst(t) ==
    [geom |-> "LineString",
     coords |-> [k \in 1..Len(t.points) |-> Coord(t.points[k].lat, t.points[k].lng)],
     img |-> NULL]

\* generateKml, tracks: `${p.lng},${p.lat},0` for every point.
TrackPlacemark(t) ==
    [geom |-> "LineString",
     coords |-> [k \in 1..Len(t.points) |-> Coord(t.points[k].lng, t.points[k].lat)],
     img |-> NULL]

\* generateKml, photos: the point (0,0 without a location) and the image
\* reference in the description.
PhotoPlacemark(p) ==
    [geom |-> "Point",
     coords |-> <<IF p.location # None
                  THEN Coord(p.location[1].lng, p.location[1].lat)
                  ELSE Coord(0, 0)>>,
     img |-> ImageName(p.id)]

\* generateKml: tracks without points are left out.
GenerateKml(ts, ps) ==
    LET RECURSIVE Lines(_)
        Lines(rest) ==
            IF rest = <<>> THEN <<>>
            ELSE IF Len(Head(rest).points) = 0 THEN Lines(Tail(rest))
            ELSE <<TrackPlacemark(Head(rest))>> \o Lines(Tail(rest))
    IN  Lines(ts) \o [k \in 1..Len(ps) |-> PhotoPlacemark(ps[k])]

\* An export that packages an image entry for every photo.
PackagedImagesAll(ps) == [k \in 1..Len(ps) |-> ImageName(ps[k].id)]

\* exportToKmz: imagesFolder.file(`photo_${photo.id}.jpg`, blob) for every
\* photo with data.
RECURSIVE PackagedImages(_)
PackagedImages(ps) ==
    IF ps = <<>> THEN <<>>
    ELSE IF Falsy(Head(ps).data) THEN PackagedImages(Tail(ps))
    ELSE <<ImageName(Head(ps).id)>> \o PackagedImages(Tail(ps))

ExportToKmz(ts, ps) ==
    [fmt |-> "kmz", name |-> "export.kmz", hasKml |-> TRUE, author |-> TRUE,
     placemarks |-> GenerateKml(ts, ps), images |-> PackagedImages(ps)]

\* exportToKmz returns after its notice when there is no track.
ExportKmzStep ==
    /\ cdc.pc = "input"
    /\ cdc' = IF cdc.tracks = <<>> THEN [cdc EXCEPT !.pc = "nothing"]
              ELSE [cdc EXCEPT !.pc = "exported",
                               !.doc = Some(ExportToKmz(cdc.tracks, cdc.photos))]
    /\ UNCHANGED <<storeVars, sessionVars, uiBusy, currentUser, remoteVars,
                   pub, ld, imp, rs>>

ImportKmzStep(now) ==
    /\ cdc.pc = "exported"
    /\ LET r == ImportKmz(cdc.doc[1], now, ImportId(keyGen.imports), TRUE)
       IN  cdc' = [cdc EXCEPT !.pc = "imported", !.type = r.type,
                              !.outTracks = r.tracks, !.outPhotos = r.photos]
    /\ UNCHANGED <<storeVars, sessionVars, uiBusy, currentUser, remoteVars,
                   pub, ld, imp, rs>>

\* ------------------------------------------------------- specifications
EmptyDocs == [n \in {} |-> NULL]

\* A project another session published earlier under the name "trip".
ExistingPhoto ==
    [data |-> "A0", timestamp |-> 2, location |-> Some([lat |-> 2, lng |-> 1]),
     direction |-> "deg:90", text |-> "txt:hut"]

ExistingProject ==
    [userId |-> "other", startTime |-> 1, createdAt |-> 0,
     tracks |-> <<[timestamp |-> 2, points |-> <<[lat |-> 1, lng |-> 2]>>,
                   totalPoints |-> 1],
                  [timestamp |-> 1, points |-> <<>>, totalPoints |-> 0]>>,
     photos |-> <<FormatPhoto(ProjectName("trip", 0), ExistingPhoto)>>,
     tracksCount |-> 2, photosCount |-> 1]

ExistingBlobs ==
    [b \in {PhotoPath(ProjectName("trip", 0), ExistingPhoto)} |-> ExistingPhoto.data]

\* The record/publish/load/import cycle of the application.
Init ==
    /\ InitStore /\ InitSession /\ InitProcs
    /\ currentUser \in BOOLEAN
    /\ remote = [n \in {ProjectName("trip", 0)} |-> ExistingProject]
    /\ blobs = ExistingBlobs
    /\ serverTime = 0

Next ==
    \/ \E ts \in SessionTimes : StartSession(ts)
    \/ \E p \in GpsPoints : RecordTrackPoint(p)
    \/ StopTracking
    \/ \E p \in PhotoInputs : CapturePhoto(p)
    \/ \E base \in BaseNames, denied \in BOOLEAN : PublishStart(base, denied)
    \/ \E res \in {"exists", "empty", "permission-denied", "unavailable"} : Probe(res)
    \/ ReadLocal
    \/ \E res \in {"ok", "putFailed", "urlFailed", "noData"} : Upload(res)
    \/ \E res \in {"ok", "failed"} : WriteProject(res)
    \/ \E n \in DOMAIN remote : LoadStart(n)
    \/ LoadClear
    \/ LoadTracks
    \/ \E res \in {"ok", "failed"} : LoadPhoto(res)
    \/ LoadFinish
    \/ \E entry \in {"fileInput", "kmzInput"}, file \in KmzFiles \cup GeoJsonFiles,
          now \in ImportTimes, hasToGeoJSON \in BOOLEAN :
            ImportFile(entry, file, now, hasToGeoJSON)
    \/ \E file \in GeoJsonFiles, now \in ImportTimes : HandleGeoJSONUpload(file, now)
    \/ \E yes \in BOOLEAN : ImportConfirm(yes)
    \/ ImportClear
    \/ ImportRestore

Spec == Init /\ [][Next]_vars

\* The full reset, beside a recording session and the map's position saves.
InitReset ==
    /\ InitStore /\ InitSession /\ InitProcs
    /\ currentUser = TRUE
    /\ remote = EmptyDocs
    /\ blobs = EmptyDocs
    /\ serverTime = 0

NextReset ==
    \/ \E pos \in MapPositions, ts \in SessionTimes : MapMoved(pos, ts)
    \/ \E ts \in SessionTimes : StartSession(ts)
    \/ \E p \in GpsPoints : RecordTrackPoint(p)
    \/ StopTracking
    \/ \E entry \in {"silent", "confirmed"} : ResetStart(entry)
    \/ \E res \in {"success", "blocked", "error"} : ResetDelete(res)
    \/ ResetBackoff
    \/ \E ts \in ImportTimes : ResetReopen(ts)
    \/ ResetRecover
    \/ ResetClick
    \/ ResetSecondRecover

SpecReset == InitReset /\ [][NextReset]_vars

\* Name resolution against a remote collection that already holds the base
\* name and a run of its siblings, possibly with gaps.
Candidates == {0} \cup (FirstCounter..CounterLimit)
ExistingRuns ==
    {{n \in Candidates : n < k} : k \in 0..(CounterLimit + 1)}
    \cup {{0, 3}, {2, 3}, {0, 2, 4}, {CounterLimit}}

InitNames ==
    /\ InitStore /\ InitProcs
    /\ currentTrackId = 0
    /\ trackingStartTime = 1
    /\ trackingData = <<>>
    /\ isTracking = FALSE
    /\ uiBusy = FALSE
    /\ currentUser = TRUE
    /\ \E run \in ExistingRuns :
          remote = [n \in {ProjectName("trip", k) : k \in run} |-> ExistingProject]
    /\ blobs = EmptyDocs
    /\ serverTime = 0

NextNames ==
    \/ \E base \in BaseNames, denied \in BOOLEAN : PublishStart(base, denied)
    \/ \E res \in {"exists", "empty", "permission-denied", "unavailable"} : Probe(res)

SpecNames == InitNames /\ [][NextNames]_vars

\* The plain-document round trip over every small dataset.
SeqsUpTo(S, n) == UNION {[1..k -> S] : k \in 0..n}

CodecTracks ==
    {[id |-> 1, timestamp |-> 1, points |-> ps, totalPoints |-> Len(ps)] :
        ps \in SeqsUpTo(GpsPoints, MaxPoints)}

CodecPhotos ==
    {[id |-> 1, data |-> d, timestamp |-> 2,
      location |-> Some([lat |-> 1, lng |-> 2]), direction |-> dir, text |-> txt] :
        d \in {NULL, "A0"}, dir \in Directions, txt \in Captions \cup {"txt:"}}

InitCodec ==
    /\ InitStore /\ InitSession
    /\ pub = PubIdle /\ ld = LdIdle /\ imp = ImpIdle /\ rs = RsIdle
    /\ \E ts \in SeqsUpTo(CodecTracks, MaxTracks), ps \in SeqsUpTo(CodecPhotos, 1) :
          cdc = [CdcIdle EXCEPT !.pc = "input",
                                !.tracks = [k \in 1..Len(ts) |-> [ts[k] EXCEPT !.id = k]],
                                !.photos = ps]
    /\ currentUser = TRUE
    /\ remote = EmptyDocs
    /\ blobs = EmptyDocs
    /\ serverTime = 0

NextCodec ==
    \/ ExportStep
    \/ \E now \in Times : ImportStep(now)

SpecCodec == InitCodec /\ [][NextCodec]_vars

\* Publishing a store that already holds photos: every sequence of up to
\* MaxUploads photos, one of them without image data, with and without a
\* signed-in principal.
UploadInputs ==
    PhotoInputs \cup
    {[data |-> NULL, timestamp |-> 3, location |-> Some([lat |-> 1, lng |-> 1]),
      direction |-> "deg:90", text |-> "txt:"]}

InitPublish ==
    /\ db = TRUE
    /\ tracks = <<TrackRow(1, [timestamp |-> 1, points |-> <<[lat |-> 1, lng |-> 2]>>,
                               totalPoints |-> 1])>>
    /\ \E ps \in SeqsUpTo(UploadInputs, MaxUploads) :
          /\ photos = [k \in 1..Len(ps) |-> PhotoRow(k, ps[k])]
          /\ keyGen = [tracks |-> 2, photos |-> Len(ps) + 1, externals |-> 1,
                       externalPhotos |-> 1, imports |-> 1]
    /\ externals = <<>>
    /\ externalPhotos = <<>>
    /\ settings = None
    /\ InitProcs
    /\ currentTrackId = 1
    /\ trackingStartTime = 1
    /\ trackingData = <<[lat |-> 1, lng |-> 2]>>
    /\ isTracking = FALSE
    /\ uiBusy = FALSE
    /\ currentUser \in BOOLEAN
    /\ remote = [n \in {ProjectName("trip", 0)} |-> ExistingProject]
    /\ blobs = ExistingBlobs
    /\ serverTime = 0

NextPublish ==
    \/ \E base \in BaseNames, denied \in BOOLEAN : PublishStart(base, denied)
    \/ \E res \in {"exists", "empty", "permission-denied", "unavailable"} : Probe(res)
    \/ ReadLocal
    \/ \E res \in {"ok", "putFailed", "urlFailed", "noData"} : Upload(res)
    \/ \E res \in {"ok", "failed"} : WriteProject(res)

SpecPublish == InitPublish /\ [][NextPublish]_vars

\* Loading a remote project of up to MaxRemotePhotos photo entries: with a
\* blob, with a url only, with a storage path nothing is stored under, and
\* without any reference; the local store holds a session of its own.
RemotePhotoPool ==
    {[url |-> [project |-> ProjectName("trip", 0), ts |-> k],
      storagePath |-> IF k = 2 THEN NoPath
                      ELSE [project |-> ProjectName("trip", 0), ts |-> k],
      timestamp |-> k, direction |-> "deg:90",
      location |-> Some([lat |-> k, lng |-> 1]), text |-> NULL] : k \in 1..3}
    \cup {[url |-> NoPath, storagePath |-> NoPath, timestamp |-> 4,
           direction |-> NULL, location |-> Some([lat |-> 4, lng |-> 1]),
           text |-> "txt:hut"]}

InitLoad ==
    /\ db = TRUE
    /\ tracks = <<TrackRow(1, [timestamp |-> 1, points |-> <<[lat |-> 1, lng |-> 2]>>,
                               totalPoints |-> 1])>>
    /\ photos = <<>>
    /\ keyGen = [tracks |-> 2, photos |-> 1, externals |-> 1,
                 externalPhotos |-> 1, imports |-> 1]
    /\ externals = <<>>
    /\ externalPhotos = <<>>
    /\ settings = None
    /\ InitProcs
    /\ currentTrackId = 1
    /\ trackingStartTime = 1
    /\ trackingData = <<[lat |-> 1, lng |-> 2]>>
    /\ isTracking = FALSE
    /\ uiBusy = FALSE
    /\ currentUser = TRUE
    /\ \E rps \in SeqsUpTo(RemotePhotoPool, MaxRemotePhotos) :
          remote = [n \in {ProjectName("trip", 0)} |->
                       [ExistingProject EXCEPT !.tracks = <<>>, !.tracksCount = 0,
                                               !.photos = rps,
                                               !.photosCount = Len(rps)]]
    /\ blobs = [b \in {[project |-> ProjectName("trip", 0), ts |-> k] : k \in 1..2}
                  |-> "A0"]
    /\ serverTime = 0

NextLoad ==
    \/ \E n \in DOMAIN remote : LoadStart(n)
    \/ LoadClear
    \/ LoadTracks
    \/ \E res \in {"ok", "failed"} : LoadPhoto(res)
    \/ LoadFinish

SpecLoad == InitLoad /\ [][NextLoad]_vars

\* Listing, then loading, against every remote collection of up to MaxDocs
\* projects with creation times that are absent (0), equal or different.
InitList ==
    /\ InitStore /\ InitSession /\ InitProcs
    /\ currentUser \in BOOLEAN
    /\ \E names \in SUBSET {ProjectName("trip", k) : k \in {0} \cup (2..MaxDocs)} :
          remote \in [names -> {[ExistingProject EXCEPT !.createdAt = c] : c \in 0..2}]
    /\ blobs = ExistingBlobs
    /\ serverTime = 0

NextList ==
    \/ \E names \in SeqsUpTo(DOMAIN remote, MaxDocs) : ReloadFromFirebase(names)
    \/ NextLoad

SpecList == InitList /\ [][NextList]_vars

\* Opening a database left by an earlier release: any subset of the stores
\* exists, each empty or holding a row; or a database of this release.
InitUpgrade ==
    /\ db = FALSE
    /\ \E stores \in SUBSET SchemaStores, stale \in BOOLEAN :
          /\ ~stale => stores = SchemaStores
          /\ cdc = [pc |-> "closed", stores |-> stores, stale |-> stale,
                    upgraded |-> FALSE, before |-> [n \in {} |-> <<>>]]
          /\ tracks \in IF "tracks" \in stores
                        THEN {<<>>, <<TrackRow(1, InitialTrackData(1))>>} ELSE {<<>>}
          /\ photos \in IF "photos" \in stores
                        THEN {<<>>} \cup {<<PhotoRow(1, p)>> : p \in PhotoInputs}
                        ELSE {<<>>}
          /\ settings \in IF "settings" \in stores
                          THEN {None, Some(PositionData(1, 2, 13, 1))} ELSE {None}
          /\ externals \in IF "externals" \in stores
                           THEN {<<>>, <<ExternalData(1, "geojson", "other.geojson",
                                             [creator |-> NULL, features |-> <<>>], 1)>>}
                           ELSE {<<>>}
    /\ externalPhotos = <<>>
    /\ keyGen = [tracks |-> Len(tracks) + 1, photos |-> Len(photos) + 1,
                 externals |-> Len(externals) + 1, externalPhotos |-> 1,
                 imports |-> 1]
    /\ InitSession
    /\ pub = PubIdle /\ ld = LdIdle /\ imp = ImpIdle /\ rs = RsIdle
    /\ currentUser = TRUE
    /\ remote = EmptyDocs
    /\ blobs = EmptyDocs
    /\ serverTime = 0

NextUpgrade ==
    \/ OpenStore
    \/ Redeploy

SpecUpgrade == InitUpgrade /\ [][NextUpgrade]_vars

\* The archive round trip over every small dataset: tracks of up to
\* MaxExported points, photos with and without image data and location.
InitArchive ==
    /\ InitStore /\ InitSession
    /\ pub = PubIdle /\ ld = LdIdle /\ imp = ImpIdle /\ rs = RsIdle
    /\ LET ArchiveTracks ==
               {[id |-> 1, timestamp |-> 1, points |-> ps, totalPoints |-> Len(ps)] :
                   ps \in SeqsUpTo(GpsPoints, MaxExported)}
           ArchivePhotos ==
               {[id |-> 1, data |-> d, timestamp |-> 2, location |-> loc,
                 direction |-> NULL, text |-> NULL] :
                   d \in {NULL, "A0"}, loc \in {None, Some([lat |-> 1, lng |-> 2])}}
       IN  \E ts \in SeqsUpTo(ArchiveTracks, MaxExported),
              ps \in SeqsUpTo(ArchivePhotos, MaxExported) :
              cdc = [CdcIdle EXCEPT
                        !.pc = "input",
                        !.tracks = [k \in 1..Len(ts) |-> [ts[k] EXCEPT !.id = k]],
                        !.photos = [k \in 1..Len(ps) |-> [ps[k] EXCEPT !.id = k]]]
    /\ currentUser = TRUE
    /\ remote = EmptyDocs
    /\ blobs = EmptyDocs
    /\ serverTime = 0

NextArchive ==
    \/ ExportKmzStep
    \/ \E now \in Times : ImportKmzStep(now)

SpecArchive == InitArchive /\ [][NextArchive]_vars

\* Publishing a stored dataset and loading the published project back,
\* every upload, write and download succeeding: a store of up to MaxPhotos
\* photos of every direction and caption, kept beside in cdc as they were
\* before the publish.
InitRoundTrip ==
    /\ db = TRUE
    /\ tracks = <<TrackRow(1, [timestamp |-> 1, points |-> <<[lat |-> 1, lng |-> 2]>>,
                               totalPoints |-> 1])>>
    /\ \E ps \in SeqsUpTo({[data |-> "A0", timestamp |-> 1, location |-> loc,
                            direction |-> d, text |-> t] :
                              loc \in {None, Some([lat |-> 1, lng |-> 2])},
                              d \in Directions, t \in Captions}, MaxPhotos) :
          /\ photos = [k \in 1..Len(ps) |-> PhotoRow(k, ps[k])]
          /\ keyGen = [tracks |-> 2, photos |-> Len(ps) + 1, externals |-> 1,
                       externalPhotos |-> 1, imports |-> 1]
          /\ cdc = [CdcIdle EXCEPT !.pc = "input",
                                   !.photos = [k \in 1..Len(ps) |-> PhotoRow(k, ps[k])]]
    /\ externals = <<>>
    /\ externalPhotos = <<>>
    /\ settings = None
    /\ pub = PubIdle /\ ld = LdIdle /\ imp = ImpIdle /\ rs = RsIdle
    /\ currentTrackId = 1
    /\ trackingStartTime = 1
    /\ trackingData = <<[lat |-> 1, lng |-> 2]>>
    /\ isTracking = FALSE
    /\ uiBusy = FALSE
    /\ currentUser = TRUE
    /\ remote = EmptyDocs
    /\ blobs = EmptyDocs
    /\ serverTime = 0

NextRoundTrip ==
    \/ \E base \in BaseNames : PublishStart(base, FALSE)
    \/ \E res \in {"exists", "empty"} : Probe(res)
    \/ ReadLocal
    \/ Upload("ok")
    \/ WriteProject("ok")
    \/ \E n \in DOMAIN remote : LoadStart(n)
    \/ LoadClear
    \/ LoadTracks
    \/ LoadPhoto("ok")
    \/ LoadFinish

SpecRoundTrip == InitRoundTrip /\ [][NextRoundTrip]_vars

\* saveTrackingDataRealtime() called on its own, as the position watcher
\* does: the store and the session as they are at the call are kept in cdc.
RealtimeSave ==
    /\ cdc.pc = "input"
    /\ tracks' = SaveTrackingDataRealtime(tracks, db, currentTrackId,
                                          trackingStartTime, trackingData)
    /\ keyGen' = IF db /\ currentTrackId # 0
                 THEN [keyGen EXCEPT !.tracks = BumpKey(@, currentTrackId)]
                 ELSE keyGen
    /\ cdc' = [cdc EXCEPT !.pc = "saved"]
    /\ UNCHANGED <<db, photos, externals, externalPhotos, settings, sessionVars,
                   uiBusy, currentUser, remoteVars, pub, ld, imp, rs>>

\* A recording in progress: a store of up to MaxTracks tracks and MaxPhotos
\* photos, up to MaxRecorded points in memory, the current track id unset or
\* that of a stored track, the handle open or closed.
InitRealtime ==
    /\ db \in BOOLEAN
    /\ \E ts \in SeqsUpTo({[timestamp |-> 1, points |-> ps, totalPoints |-> Len(ps)] :
                              ps \in SeqsUpTo(GpsPoints, MaxPoints)}, MaxTracks),
          ps \in SeqsUpTo(PhotoInputs, MaxPhotos) :
          /\ tracks = [k \in 1..Len(ts) |-> TrackRow(k, ts[k])]
          /\ photos = [k \in 1..Len(ps) |-> PhotoRow(k, ps[k])]
          /\ keyGen = [tracks |-> Len(ts) + 1, photos |-> Len(ps) + 1,
                       externals |-> 1, externalPhotos |-> 1, imports |-> 1]
          /\ currentTrackId \in 0..Len(ts)
          /\ cdc = [CdcIdle EXCEPT !.pc = "input", !.tracks = tracks,
                                   !.photos = photos]
    /\ externals = <<>>
    /\ externalPhotos = <<>>
    /\ settings = None
    /\ pub = PubIdle /\ ld = LdIdle /\ imp = ImpIdle /\ rs = RsIdle
    /\ trackingStartTime = 2
    /\ trackingData \in SeqsUpTo(GpsPoints, MaxRecorded)
    /\ isTracking = TRUE
    /\ uiBusy = FALSE
    /\ currentUser = TRUE
    /\ remote = EmptyDocs
    /\ blobs = EmptyDocs
    /\ serverTime = 0

SpecRealtime == InitRealtime /\ [][RealtimeSave]_vars

\* saveLastPosition(lat, lng, zoom) with its request followed: store.put
\* hands back a request, not a promise, so `await store.put(...)` goes on at
\* once and saveLastPosition returns with the put still in flight; cdc.pending
\* holds the puts issued and not yet done, oldest first.
SaveLastPositionCall(pos, ts) ==
    /\ db
    /\ Len(cdc.pending) < MaxInFlight
    /\ cdc' = [cdc EXCEPT !.pending =
                  Append(@, PositionData(pos.lat, pos.lng, pos.zoom, ts))]
    /\ UNCHANGED <<storeVars, sessionVars, uiBusy, currentUser, remoteVars,
                   pub, ld, imp, rs>>

\* The oldest put in flight completes: its row is in the settings store.
SettingsPutDone ==
    /\ cdc.pending # <<>>
    /\ settings' = Some(Head(cdc.pending))
    /\ cdc' = [cdc EXCEPT !.pending = Tail(@)]
    /\ UNCHANGED <<db, tracks, photos, externals, externalPhotos, keyGen,
                   sessionVars, uiBusy, currentUser, remoteVars, pub, ld, imp, rs>>

InitWrites ==
    /\ InitStore /\ InitSession
    /\ pub = PubIdle /\ ld = LdIdle /\ imp = ImpIdle /\ rs = RsIdle
    /\ cdc = [pc |-> "idle", pending |-> <<>>]
    /\ currentUser = TRUE
    /\ remote = EmptyDocs
    /\ blobs = EmptyDocs
    /\ serverTime = 0

NextWrites ==
    \/ \E pos \in MapPositions, ts \in Times : SaveLastPositionCall(pos, ts)
    \/ SettingsPutDone

SpecWrites == InitWrites /\ [][NextWrites]_vars

\* A second client publishing to the same remote collection under the same
\* base name; its saveToFirebase is followed in cdc. Its store holds no
\* photo, so between its name resolution and its write nothing is uploaded.
PeerProbe ==
    /\ cdc.pc = "probe"
    /\ cdc' = ResolveStep(cdc, IF cdc.name \in DOMAIN remote THEN "exists" ELSE "empty")
    /\ UNCHANGED <<storeVars, sessionVars, uiBusy, currentUser, remoteVars,
                   pub, ld, imp, rs>>

PeerWrite ==
    /\ cdc.pc = "read"
    /\ remote' = SetDoc(remote, cdc.name, ProjectData(cdc, 2, serverTime + 1))
    /\ serverTime' = serverTime + 1
    /\ cdc' = [cdc EXCEPT !.pc = "done", !.written = TRUE,
                          !.overwrote = (cdc.name \in DOMAIN remote),
                          !.outcome = "saved"]
    /\ UNCHANGED <<storeVars, sessionVars, uiBusy, currentUser, blobs,
                   pub, ld, imp, rs>>

\* Two clients about to publish under "trip", which the collection may hold
\* already; every probe answers truthfully, every upload and write succeeds.
InitTwoPublishers ==
    /\ db = TRUE
    /\ tracks = <<TrackRow(1, [timestamp |-> 1, points |-> <<[lat |-> 1, lng |-> 2]>>,
                               totalPoints |-> 1])>>
    /\ \E ps \in SeqsUpTo(PhotoInputs, MaxPhotos) :
          /\ photos = [k \in 1..Len(ps) |-> PhotoRow(k, ps[k])]
          /\ keyGen = [tracks |-> 2, photos |-> Len(ps) + 1, externals |-> 1,
                       externalPhotos |-> 1, imports |-> 1]
    /\ externals = <<>>
    /\ externalPhotos = <<>>
    /\ settings = None
    /\ pub = PubIdle /\ ld = LdIdle /\ imp = ImpIdle /\ rs = RsIdle
    /\ cdc = [PubIdle EXCEPT !.pc = "probe", !.base = "trip",
                             !.name = ProjectName("trip", 0),
                             !.counter = FirstCounter]
    /\ currentTrackId = 1
    /\ trackingStartTime = 1
    /\ trackingData = <<[lat |-> 1, lng |-> 2]>>
    /\ isTracking = FALSE
    /\ uiBusy = FALSE
    /\ currentUser = TRUE
    /\ remote \in {EmptyDocs, [n \in {ProjectName("trip", 0)} |-> ExistingProject]}
    /\ blobs = ExistingBlobs
    /\ serverTime = 0

NextTwoPublishers ==
    \/ PublishStart("trip", FALSE)
    \/ \E res \in {"exists", "empty"} : Probe(res)
    \/ ReadLocal
    \/ Upload("ok")
    \/ WriteProject("ok")
    \/ PeerProbe
    \/ PeerWrite

SpecTwoPublishers == InitTwoPublishers /\ [][NextTwoPublishers]_vars

\* The operations that put the UI into the busy state, on a store with a
\* recorded session: publish, list, load and the file imports, with every
\* outcome of their probes, uploads, writes, downloads and dialogs.
InitBusy ==
    /\ db = TRUE
    /\ tracks = <<TrackRow(1, [timestamp |-> 1, points |-> <<[lat |-> 1, lng |-> 2]>>,
                               totalPoints |-> 1])>>
    /\ \E ps \in SeqsUpTo(UploadInputs, MaxPhotos) :
          /\ photos = [k \in 1..Len(ps) |-> PhotoRow(k, ps[k])]
          /\ keyGen = [tracks |-> 2, photos |-> Len(ps) + 1, externals |-> 1,
                       externalPhotos |-> 1, imports |-> 1]
    /\ externals = <<>>
    /\ externalPhotos = <<>>
    /\ settings = None
    /\ InitProcs
    /\ currentTrackId = 1
    /\ trackingStartTime = 1
    /\ trackingData = <<[lat |-> 1, lng |-> 2]>>
    /\ isTracking = FALSE
    /\ uiBusy = FALSE
    /\ currentUser \in BOOLEAN
    /\ remote = [n \in {ProjectName("trip", 0)} |-> ExistingProject]
    /\ blobs = ExistingBlobs
    /\ serverTime = 0

\* The user starts an operation.
BusyStart ==
    \/ \E base \in BaseNames, denied \in BOOLEAN : PublishStart(base, denied)
    \/ \E names \in SeqsUpTo(DOMAIN remote, MaxDocs) : ReloadFromFirebase(names)
    \/ \E n \in DOMAIN remote : LoadStart(n)
    \/ \E entry \in {"fileInput", "kmzInput"}, file \in KmzFiles \cup GeoJsonFiles,
          now \in ImportTimes, hasToGeoJSON \in BOOLEAN :
            ImportFile(entry, file, now, hasToGeoJSON)
    \/ \E file \in GeoJsonFiles, now \in ImportTimes : HandleGeoJSONUpload(file, now)

\* A started operation goes on: a request settles, a dialog is answered.
BusyStep ==
    \/ \E res \in {"exists", "empty", "permission-denied", "unavailable"} : Probe(res)
    \/ ReadLocal
    \/ \E res \in {"ok", "putFailed", "urlFailed", "noData"} : Upload(res)
    \/ \E res \in {"ok", "failed"} : WriteProject(res)
    \/ LoadClear
    \/ LoadTracks
    \/ \E res \in {"ok", "failed"} : LoadPhoto(res)
    \/ LoadFinish
    \/ \E yes \in BOOLEAN : ImportConfirm(yes)
    \/ ImportClear
    \/ ImportRestore

NextBusy == BusyStart \/ BusyStep

\* Every request of a started operation settles and every dialog is answered.
SpecBusy == InitBusy /\ [][NextBusy]_vars /\ WF_vars(BusyStep)

\* Publishing over a connection whose probes all answer, against a remote
\* collection that holds the base name alone or every candidate name.
InitExhaust ==
    /\ db = TRUE
    /\ tracks = <<TrackRow(1, [timestamp |-> 1, points |-> <<[lat |-> 1, lng |-> 2]>>,
                               totalPoints |-> 1])>>
    /\ \E ps \in SeqsUpTo(UploadInputs, MaxUploads), taken \in {{0}, Candidates} :
          /\ photos = [k \in 1..Len(ps) |-> PhotoRow(k, ps[k])]
          /\ keyGen = [tracks |-> 2, photos |-> Len(ps) + 1, externals |-> 1,
                       externalPhotos |-> 1, imports |-> 1]
          /\ remote = [n \in {ProjectName("trip", k) : k \in taken} |-> ExistingProject]
    /\ externals = <<>>
    /\ externalPhotos = <<>>
    /\ settings = None
    /\ InitProcs
    /\ currentTrackId = 1
    /\ trackingStartTime = 1
    /\ trackingData = <<[lat |-> 1, lng |-> 2]>>
    /\ isTracking = FALSE
    /\ uiBusy = FALSE
    /\ currentUser = TRUE
    /\ blobs = ExistingBlobs
    /\ serverTime = 0

NextExhaust ==
    \/ \E base \in BaseNames : PublishStart(base, FALSE)
    \/ \E res \in {"exists", "empty"} : Probe(res)
    \/ ReadLocal
    \/ \E res \in {"ok", "putFailed", "urlFailed", "noData"} : Upload(res)
    \/ \E res \in {"ok", "failed"} : WriteProject(res)

SpecExhaust == InitExhaust /\ [][NextExhaust]_vars

\* The import of one picked file, over every small native archive and native
\* plain document: placemarks and features with sound, partly unsound and
\* unsound coordinates.
PlacemarkPool ==
    {[geom |-> "LineString", coords |-> <<Coord(2, 1), Coord(1, 2)>>, img |-> NULL],
     [geom |-> "LineString", coords |-> <<Coord(NaN, 1), Coord(1, 2)>>, img |-> NULL],
     [geom |-> "LineString", coords |-> <<Coord(NaN, NaN)>>, img |-> NULL],
     [geom |-> "Point", coords |-> <<Coord(2, 1)>>, img |-> "images/photo_1.jpg"],
     [geom |-> "Point", coords |-> <<Coord(1, NaN)>>, img |-> "images/photo_1.jpg"],
     [geom |-> "Point", coords |-> <<>>, img |-> "images/photo_1.jpg"]}

FeaturePool ==
    {[geom |-> "LineString", coords |-> <<Coord(2, 1), Coord(1, 2)>>,
      props |-> [NoProps EXCEPT !.timestamp = 1]],
     [geom |-> "LineString", coords |-> <<Coord(NaN, 1), Coord(1, 2)>>,
      props |-> [NoProps EXCEPT !.timestamp = 1]],
     [geom |-> "LineString", coords |-> <<>>, props |-> NoProps],
     [geom |-> "Point", coords |-> <<Coord(2, 1)>>,
      props |-> [timestamp |-> 2, photoData |-> "A0", direction |-> "deg:90",
                 text |-> "txt:hut"]],
     [geom |-> "Point", coords |-> <<Coord(NaN, 1)>>,
      props |-> [NoProps EXCEPT !.photoData = "A0"]],
     [geom |-> "Point", coords |-> <<>>, props |-> [NoProps EXCEPT !.photoData = "A0"]]}

NativeArchives ==
    {[fmt |-> "kmz", name |-> "own.kmz", hasKml |-> TRUE, author |-> TRUE,
      placemarks |-> pms, images |-> <<"images/photo_1.jpg">>] :
        pms \in SeqsUpTo(PlacemarkPool, MaxItems)}

NativeDocuments ==
    {[fmt |-> "geojson", name |-> "own.geojson", parses |-> TRUE, creator |-> AppName,
      features |-> fs] : fs \in SeqsUpTo(FeaturePool, MaxItems)}

InitCodecImport ==
    /\ InitStore /\ InitSession
    /\ pub = PubIdle /\ ld = LdIdle /\ imp = ImpIdle /\ rs = RsIdle
    /\ \E file \in NativeArchives \cup NativeDocuments :
          cdc = [CdcIdle EXCEPT !.pc = "picked", !.doc = Some(file)]
    /\ currentUser = TRUE
    /\ remote = EmptyDocs
    /\ blobs = EmptyDocs
    /\ serverTime = 0

NextCodecImport ==
    \/ \E entry \in {"fileInput", "kmzInput"}, now \in ImportTimes :
            ImportFile(entry, cdc.doc[1], now, TRUE)
    \/ \E yes \in BOOLEAN : ImportConfirm(yes)
    \/ ImportClear
    \/ ImportRestore

SpecCodecImport == InitCodecImport /\ [][NextCodecImport]_vars

\* ---------------------------------------------------------------- claims
\* A row without its store key.
TrackOf(row) ==
    [timestamp |-> row.timestamp, points |-> row.points,
     totalPoints |-> row.totalPoints]

\* C1: every Track held by the local store has totalPoints equal to the
\* length of its points, whatever sequence of session start, realtime save,
\* native import restore and load from a remote project produced it.
C1_TotalPointsIsLength ==
    \A i \in 1..Len(tracks) : tracks[i].totalPoints = Len(tracks[i].points)

\* A realtime save has put a recorded point into the current session's Track.
C1_Witness ==
    /\ isTracking
    /\ \E i \in 1..Len(tracks) :
          /\ tracks[i].id = currentTrackId
          /\ tracks[i].points = trackingData
          /\ Len(tracks[i].points) >= 1

\* The entries publish is to hand to the record: the photos whose upload
\* did not fail, in local order.
RECURSIVE UploadedInOrder(_, _, _, _)
UploadedInOrder(name, ps, failed, k) ==
    IF k > Len(ps) THEN <<>>
    ELSE IF k \in failed THEN UploadedInOrder(name, ps, failed, k + 1)
    ELSE <<FormatPhoto(name, ps[k])>> \o UploadedInOrder(name, ps, failed, k + 1)

\* C2: once the upload loop of a publish is over, every one of the N local
\* photos was attempted, uploadSuccessCount + uploadFailCount = N,
\* uploadFailCount is the number of failed uploads, the publish goes on to
\* write the record, and a written record holds exactly the photos that
\* succeeded, in local order.
C2_PartialUploadAccounting ==
    (pub.pc = "write" \/ (pub.pc = "done" /\ pub.outcome \in {"saved", "WriteFailed"}))
    => /\ pub.i = Len(pub.allPhotos)
       /\ pub.uploadSuccessCount + pub.uploadFailCount = Len(pub.allPhotos)
       /\ pub.uploadFailCount = Cardinality(pub.failed)
       /\ pub.formattedPhotos = UploadedInOrder(pub.name, pub.allPhotos, pub.failed, 1)
       /\ pub.written =>
             /\ remote[pub.name].photos = pub.formattedPhotos
             /\ Len(remote[pub.name].photos) = pub.uploadSuccessCount

\* The first photo's upload failed, a later one succeeded, the record is written.
C2_Witness ==
    /\ pub.written
    /\ 1 \in pub.failed
    /\ pub.uploadSuccessCount >= 1
    /\ Len(pub.allPhotos) = MaxUploads

\* C3: a publish never writes its project record under a name for which a
\* remote project record already exists.
C3_NeverOverwrites == pub.written => ~pub.overwrote

\* The smallest candidate (the base name, then the suffixes from 2 on) that
\* no remote project carries.
SmallestFree(base) ==
    LET free == {n \in Candidates : ProjectName(base, n) \notin DOMAIN remote}
    IN  CHOOSE n \in free : \A m \in free : n <= m

C5_ProvenanceDecidesPath ==
    (imp.pc # "idle" /\ imp.type \in {"RouteLogger", "other"})
    => /\ (imp.type = "RouteLogger") = HasMarker(imp.file[1])
       /\ HasMarker(imp.file[1]) => externals = imp.externalsBefore

C7_ClearRouteLogFrame ==
    /\ ld.pc = "cleared"
       => /\ tracks = <<>> /\ photos = <<>>
          /\ externals = ld.externalsBefore
          /\ externalPhotos = ld.externalPhotosBefore
    /\ imp.pc = "cleared"
       => /\ tracks = <<>> /\ photos = <<>>
          /\ externals = imp.externalsBefore
          /\ externalPhotos = imp.externalPhotosBefore

\* A load has just cleared a store that held a Track, an ExternalDataset
\* and an ExternalPhotoAsset.
C7_Witness ==
    /\ ld.pc = "cleared"
    /\ ld.tracksBefore # <<>>
    /\ externals # <<>>
    /\ externalPhotos # <<>>

\* lat, lng and zoom of a position.
Place(pos) == [lat |-> pos.lat, lng |-> pos.lng, zoom |-> pos.zoom]

\* C8: after a successful full reset, by either entry point, the read of
\* lastPosition returns the lat, lng and zoom the row held right before the
\* reset, or the default position when there was no row.
C8_LastPositionSurvivesReset ==
    rs.outcome = "reset"
    => /\ rs.readBack # None
       /\ Place(rs.readBack[1]) = IF rs.before # None THEN Place(rs.before[1])
                                   ELSE Place(DEFAULT_POSITION)

\* A confirmed reset of a store that held a lastPosition row has succeeded.
C8_Witness ==
    /\ rs.outcome = "reset"
    /\ rs.entry = "confirmed"
    /\ rs.before # None

\* C9: a full reset never makes more than maxRetries deletion attempts, and
\* it surfaces the blocked deletion as a fatal error only after the bound
\* is exhausted, never on the first blocked report.
C9_BoundedRetryOnBlocked ==
    /\ rs.attempts <= maxRetries
    /\ rs.outcome = "StoreBlocked" => rs.attempts = maxRetries

\* C10: exporting Tracks and Photos to the plain document and importing it
\* yields the same number of Tracks with the same point sequences in order,
\* and the same Photos with the same location, timestamp, direction and
\* caption.
C10_PlainRoundTrip ==
    cdc.pc = "imported"
    => /\ cdc.type = "RouteLogger"
       /\ Len(cdc.outTracks) = Len(cdc.tracks)
       /\ \A k \in 1..Len(cdc.outTracks) :
             k <= Len(cdc.tracks) => cdc.outTracks[k].points = cdc.tracks[k].points
       /\ Len(cdc.outPhotos) = Len(cdc.photos)
       /\ \A k \in 1..Len(cdc.outPhotos) :
             k <= Len(cdc.photos)
             => /\ cdc.outPhotos[k].location = cdc.photos[k].location
                /\ cdc.outPhotos[k].timestamp = cdc.photos[k].timestamp
                /\ cdc.outPhotos[k].direction = cdc.photos[k].direction
                /\ cdc.outPhotos[k].text = cdc.photos[k].text

\* A coordinate both of whose numbers parsed.
Numeric(c) == ~IsNaN(c.x) /\ ~IsNaN(c.y)

\* A placemark or feature none of whose coordinates is numeric.
NonNumeric(item) ==
    IF item.geom = "Point"
    THEN item.coords = <<>> \/ ~Numeric(item.coords[1])
    ELSE \A k \in 1..Len(item.coords) : ~Numeric(item.coords[k])

RECURSIVE WithoutBad(_)
WithoutBad(items) ==
    IF items = <<>> THEN <<>>
    ELSE IF NonNumeric(Head(items)) THEN WithoutBad(Tail(items))
    ELSE <<Head(items)>> \o WithoutBad(Tail(items))

CountOf(items, geom) ==
    Cardinality({k \in 1..Len(items) : items[k].geom = geom /\ ~NonNumeric(items[k])})

\* C11: on native archive import a placemark whose coordinates are non-numeric
\* is dropped without the import failing, every other placemark yields the
\* Track or Photo it yields when the bad placemarks are absent, and a line
\* placemark left with zero valid points yields no Track.
C11_BadPlacemarksDropped ==
    (imp.pc # "idle" /\ imp.file # None /\ imp.file[1] \in NativeArchives) =>
        LET file == imp.file[1]
            kept == WithoutBad(file.placemarks)
        IN  /\ imp.type = "RouteLogger"
            /\ \E now \in ImportTimes :
                  /\ imp.tracks = KmzTracks(kept, now)
                  /\ imp.photos = KmzPhotos(kept, file.images, now)
            /\ Len(imp.tracks) = CountOf(file.placemarks, "LineString")
            /\ Len(imp.photos) = CountOf(file.placemarks, "Point")
            /\ \A k \in 1..Len(imp.tracks) :
                  /\ Len(imp.tracks[k].points) > 0
                  /\ \A j \in 1..Len(imp.tracks[k].points) :
                        /\ ~IsNaN(imp.tracks[k].points[j].lat)
                        /\ ~IsNaN(imp.tracks[k].points[j].lng)

C11_Witness ==
    /\ imp.pc = "confirm" /\ imp.file # None /\ imp.file[1] \in NativeArchives
    /\ \E k \in 1..Len(imp.file[1].placemarks) :
          /\ imp.file[1].placemarks[k].geom = "LineString"
          /\ NonNumeric(imp.file[1].placemarks[k])
    /\ \E k \in 1..Len(imp.file[1].placemarks) :
          /\ imp.file[1].placemarks[k].geom = "Point"
          /\ NonNumeric(imp.file[1].placemarks[k])
    /\ Len(imp.tracks) + Len(imp.photos) = 1

\* C12: on native plain-document import no per-feature defect aborts the
\* import: a pair that is not a pair of finite numbers is dropped from its
\* Track, a line feature with zero valid points yields no Track, a point
\* feature whose coordinates are missing or invalid yields no Photo, and all
\* other features are imported.
C12_PerFeatureFiltering ==
    (imp.pc # "idle" /\ imp.file # None /\ imp.file[1] \in NativeDocuments) =>
        LET file == imp.file[1]
        IN  /\ imp.type = "RouteLogger"
            /\ Len(imp.tracks) = CountOf(file.features, "LineString")
            /\ Len(imp.photos) = CountOf(file.features, "Point")
            /\ \A k \in 1..Len(imp.tracks) :
                  /\ Len(imp.tracks[k].points) > 0
                  /\ \A j \in 1..Len(imp.tracks[k].points) :
                        /\ ~IsNaN(imp.tracks[k].points[j].lat)
                        /\ ~IsNaN(imp.tracks[k].points[j].lng)

AllTaken(base) ==
    \A k \in Candidates : ProjectName(base, k) \in DOMAIN remote

\* C14: name resolution ends after at most 100 existence probes; when every
\* probed candidate exists, publish fails with NameExhausted, uploads no photo
\* and writes no project record.
C14_BoundedResolution ==
    /\ pub.probes <= CounterLimit
    /\ pub.pc = "probe" => pub.probes < CounterLimit
    /\ (pub.probes > 0 /\ pub.pc # "probe" /\ ~pub.probeError /\ AllTaken(pub.base)) =>
          pub.outcome = "NameExhausted"
    /\ pub.outcome = "NameExhausted" =>
          /\ pub.pc = "done"
          /\ pub.i = 0 /\ pub.formattedPhotos = <<>>
          /\ pub.uploadSuccessCount = 0 /\ pub.uploadFailCount = 0
          /\ ~pub.written
          /\ serverTime = 0

C14_Witness ==
    /\ pub.pc = "done" /\ pub.outcome = "NameExhausted"
    /\ pub.probes = CounterLimit - 1
    /\ Len(photos) >= 1

\* C15: an existence probe that fails with an authorization denial counts as
\* "name does not exist" and publish proceeds with that candidate; a probe
\* that fails with any other error aborts the publish: no photo is uploaded
\* and no project record is written.
C15_ProbeErrorPolicy ==
    /\ (pub.probeError /\ pub.denied) =>
          /\ pub.probes = 1 /\ pub.name = ProjectName(pub.base, 0)
          /\ pub.outcome # "NameExhausted"
    /\ (pub.probeError /\ ~pub.denied) =>
          /\ pub.pc = "done"
          /\ pub.i = 0 /\ pub.uploadSuccessCount = 0 /\ pub.uploadFailCount = 0
          /\ ~pub.written

\* C16: every put/add issued while the store handle is not open, the window
\* between the close and the re-open of a full reset included, fails with
\* NotInitialized and writes nothing; none silently does nothing.
C16_ClosedHandleRejectsWrites ==
    ~db => \A op \in PutOps : PutOutcome(op, db) = "NotInitialized"

\* C17: on an open store every read succeeds on an empty result: get-all on
\* an empty collection returns the empty sequence, get-one by an id or key
\* that matches no row returns null.
C17_ReadsSucceedOnEmpty ==
    /\ db =>
          /\ \A store \in {"tracks", "photos", "externals"} :
                LET rows == IF store = "tracks" THEN tracks
                            ELSE IF store = "photos" THEN photos ELSE externals
                    r == GetAllRows(store, db, rows)
                IN  r.ok /\ r.result = rows /\ (rows = <<>> => Len(r.result) = 0)
          /\ \A id \in 1..(MaxKey + 1) :
                LET r == GetPhoto(db, photos, id)
                IN  r.ok /\ (~HasKey(photos, id) => r.result = None)
          /\ settings = None => GetLastPosition(settings) = None
    /\ (rs.pc # "idle" /\ rs.outcome # "NotInitialized" /\ rs.before = None) =>
          rs.lastPosition = None

C17_Witness ==
    /\ rs.pc = "reopen" /\ rs.before = None /\ rs.lastPosition = None
    /\ rs.attempts >= 1

\* The records restorePhotos builds from the remote entries it did not skip.
RECURSIVE Downloaded(_, _, _)
Downloaded(rps, k, skipped) ==
    IF k > Len(rps) THEN <<>>
    ELSE IF k \in skipped THEN Downloaded(rps, k + 1, skipped)
    ELSE <<PhotoRecord(rps[k], "A1")>> \o Downloaded(rps, k + 1, skipped)

PhotoOf(row) ==
    [data |-> row.data, timestamp |-> row.timestamp, direction |-> row.direction,
     location |-> row.location, text |-> row.text]

\* C18: during load a remote Photo whose blob download fails, or that carries
\* no blob reference, is skipped and the load goes on: of n remote photos with
\* k failures the local Photo collection ends with exactly the n - k
\* downloaded ones, in remote order.
C18_LoadSkipsFailedDownloads ==
    ld.pc \in {"finish", "done"} =>
        LET rps == ld.doc[1].data.photos
        IN  /\ ld.i = Len(rps)
            /\ ld.skipped \subseteq 1..Len(rps)
            /\ \A k \in 1..Len(rps) :
                  (BlobRef(rps[k]) = NoPath \/ BlobRef(rps[k]) \notin DOMAIN blobs)
                      => k \in ld.skipped
            /\ Len(photos) = Len(rps) - Cardinality(ld.skipped)
            /\ [k \in 1..Len(photos) |-> PhotoOf(photos[k])]
                  = Downloaded(rps, 1, ld.skipped)

C18_Witness ==
    /\ ld.pc = "done"
    /\ Len(ld.doc[1].data.photos) = 3
    /\ ld.skipped = {1}
    /\ Len(photos) = 2

\* C19: a successful foreign import adds exactly one ExternalDataset row
\* holding the whole document with every feature carrying the fresh import
\* identifier, and for an archive one ExternalPhotoAsset row per embedded image
\* under that identifier and keyed by its archive-relative name; it adds no
\* Track and no Photo.
C19_ForeignImportPersists ==
    (imp.pc = "done" /\ imp.type = "other" /\ ~HasMarker(imp.file[1])) =>
        LET file == imp.file[1]
            row == externals[Len(externals)]
            images == IF file.fmt = "kmz" THEN file.images ELSE <<>>
            n == Len(imp.externalPhotosBefore)
        IN  /\ Len(externals) = Len(imp.externalsBefore) + 1
            /\ SubSeq(externals, 1, Len(externals) - 1) = imp.externalsBefore
            /\ row.name = file.name
            /\ Len(row.data.features) = Len(FileItems(file))
            /\ \E id \in {ImportId(k) : k \in 1..(MaxKey + 1)} :
                  /\ \A k \in 1..Len(row.data.features) :
                        /\ "importId" \in DOMAIN row.data.features[k]
                        /\ row.data.features[k].importId = id
                        /\ row.data.features[k].geom = FileItems(file)[k].geom
                        /\ row.data.features[k].coords = FileItems(file)[k].coords
                  /\ \A j \in 1..Len(imp.externalsBefore) :
                     \A k \in 1..Len(imp.externalsBefore[j].data.features) :
                        "importId" \in DOMAIN imp.externalsBefore[j].data.features[k]
                            => imp.externalsBefore[j].data.features[k].importId # id
                  /\ Len(externalPhotos) = n + Len(images)
                  /\ SubSeq(externalPhotos, 1, n) = imp.externalPhotosBefore
                  /\ \A k \in 1..Len(images) :
                        /\ externalPhotos[n + k].importId = id
                        /\ externalPhotos[n + k].fileName = images[k]
            /\ tracks = imp.tracksBefore
            /\ photos = imp.photosBefore

\* C20: a native import writes nothing to the Local Store by itself: the
\* document is returned as native, and until the user accepts the replace
\* confirmation, and for good when the user declines it, every collection is
\* exactly as it was before the import.
C20_NativeImportWritesNothing ==
    (/\ imp.pc \in {"confirm", "done"}
     /\ imp.file # None /\ HasMarker(imp.file[1])
     /\ imp.outcome # "restored") =>
        /\ imp.type = "RouteLogger"
        /\ imp.pc = "done" => imp.outcome \in {"declined", "NotInitialized"}
        /\ tracks = imp.tracksBefore
        /\ photos = imp.photosBefore
        /\ externals = imp.externalsBefore
        /\ externalPhotos = imp.externalPhotosBefore

\* The collections are what the import found.
ImportLeftStore ==
    /\ tracks = imp.tracksBefore
    /\ photos = imp.photosBefore
    /\ externals = imp.externalsBefore
    /\ externalPhotos = imp.externalPhotosBefore

\* C21: the import of an archive with no markup document inside, of an
\* unparsable plain document, or of a foreign archive when the converter is
\* missing fails with a CodecError, and nothing has been persisted.
C21_CodecErrorPersistsNothing ==
    /\ \A file \in KmzFiles, now \in ImportTimes :
          (file.hasKml /\ ~file.author) =>
              ImportKmz(file, now, ImportId(keyGen.imports), FALSE).type = "CodecError"
    /\ (imp.pc # "idle" /\ imp.file # None) =>
          LET file == imp.file[1]
          IN  /\ (file.fmt = "kmz" /\ ~file.hasKml) => imp.type = "CodecError"
              /\ (file.fmt = "geojson" /\ ~file.parses) => imp.type = "CodecError"
              /\ imp.type = "CodecError" => (imp.pc = "done" /\ ImportLeftStore)

C21_Witness ==
    /\ imp.pc = "done" /\ imp.type = "CodecError"
    /\ imp.file[1].fmt = "kmz" /\ imp.file[1].hasKml /\ ~imp.file[1].author
    /\ Len(tracks) >= 1

\* C22: the sequence handed to the caller by the listing holds every remote
\* project exactly once and is ordered by creation time descending, a project
\* without creation time counting as oldest.
C22_ListingSortedDescending ==
    ld.documents # <<>> =>
        /\ Len(ld.documents) = Cardinality(DOMAIN remote)
        /\ {ld.documents[k].id : k \in 1..Len(ld.documents)} = DOMAIN remote
        /\ \A k \in 1..Len(ld.documents) :
              ld.documents[k].data = remote[ld.documents[k].id]
        /\ \A k \in 1..(Len(ld.documents) - 1) :
              ld.documents[k].data.createdAt >= ld.documents[k + 1].data.createdAt

C22_Witness ==
    /\ Len(ld.documents) = 3
    /\ ld.documents[1].data.createdAt = 2
    /\ ld.documents[2].data.createdAt = 1
    /\ ld.documents[3].data.createdAt = 0

C24_PackagedImages ==
    cdc.pc \in {"exported", "imported"} =>
        LET file == cdc.doc[1]
            points == SelectSeq(file.placemarks, LAMBDA pm : pm.geom = "Point")
        IN  /\ {file.images[k] : k \in 1..Len(file.images)}
                 = {ImageName(cdc.photos[k].id) :
                       k \in {j \in 1..Len(cdc.photos) : cdc.photos[j].data # NULL}}
            /\ \A i, j \in 1..Len(file.images) :
                  file.images[i] = file.images[j] => i = j
            /\ Len(points) = Len(cdc.photos)
            /\ \A k \in 1..Len(points) : points[k].img = ImageName(cdc.photos[k].id)

C24_Witness ==
    /\ cdc.pc = "exported"
    /\ Len(cdc.photos) = 2
    /\ cdc.photos[1].data = NULL /\ cdc.photos[2].data # NULL
    /\ cdc.doc[1].images = <<ImageName(2)>>

\* C25: the uploads of a publish run one after another in photo order: a
\* step of the upload loop settles exactly photo i + 1, only that photo's
\* blob is stored by it, the reported progress (i, the successes so far)
\* grows by that one photo, and the project record is written only once
\* every photo of the publish is accounted for as uploaded or failed.
C25_SequentialUploads ==
    [][/\ pub.pc = "upload" /\ pub' # pub =>
             /\ pub'.i = pub.i + 1
             /\ pub'.uploadSuccessCount + pub'.uploadFailCount = pub'.i
             /\ pub'.formattedPhotos \in
                   {pub.formattedPhotos,
                    Append(pub.formattedPhotos,
                           FormatPhoto(pub.name, pub.allPhotos[pub.i + 1]))}
             /\ \A path \in DOMAIN blobs' :
                   (path \notin DOMAIN blobs \/ blobs'[path] # blobs[path])
                   => path = PhotoPath(pub.name, pub.allPhotos[pub.i + 1])
       /\ blobs' # blobs => pub.pc = "upload"
       /\ remote' # remote =>
             /\ pub.pc = "write"
             /\ pub.uploadSuccessCount + pub.uploadFailCount = Len(pub.allPhotos)
             /\ pub'.pc = "done"]_vars

\* Three photos uploaded one after the other, then the record written.
C25_Witness ==
    /\ pub.written
    /\ Len(pub.allPhotos) = MaxUploads
    /\ pub.uploadSuccessCount = MaxUploads
    /\ Len(remote[pub.name].photos) = MaxUploads

\* C26: at most one full reset is in progress at any time: no second reset
\* is started while a first one is between closing the store and finishing
\* its re-open and re-seed.
C26_ResetsSerialized ==
    rs.pc \in {"delete", "backoff", "reopen"} => rs.second = "none"

\* C27: an ExternalDataset row is append-only: recording, photo capture,
\* clearing the route log, publish, load and further imports leave every
\* row already in the store as it is, at its place; they can only add rows
\* after it.
C27_ExternalsAppendOnly ==
    [][/\ Len(externals') >= Len(externals)
       /\ SubSeq(externals', 1, Len(externals)) = externals]_vars

\* A second foreign document was imported beside the first, and a load has
\* since cleared the route log.
C27_Witness ==
    /\ Len(externals) = MaxExternals
    /\ externals[1].id # externals[2].id
    /\ ld.pc = "done"
    /\ ld.externalsBefore = externals

\* The point placemarks of an archive document whose coordinates parse.
ValidPointPlacemarks(file) ==
    SelectSeq(file.placemarks,
              LAMBDA pm : /\ pm.geom = "Point" /\ pm.coords # <<>>
                          /\ ~IsNaN(pm.coords[1].x) /\ ~IsNaN(pm.coords[1].y))

\* C28: a native archive import yields exactly one Photo for every point
\* placemark with valid coordinates, in document order, at the placemark's
\* position; the Photo carries the packaged image its caption refers to,
\* and a placemark whose image reference cannot be resolved still yields
\* its Photo.
C28_EveryPointPlacemarkYieldsPhoto ==
    cdc.pc = "imported" /\ cdc.type = "RouteLogger" =>
        LET points == ValidPointPlacemarks(cdc.doc[1])
        IN  /\ Len(cdc.outPhotos) = Len(points)
            /\ \A k \in 1..Len(points) :
                  /\ cdc.outPhotos[k].location = Some(PointOfCoord(points[k].coords[1]))
                  /\ (\E j \in 1..Len(cdc.doc[1].images) :
                         cdc.doc[1].images[j] = points[k].img)
                     => cdc.outPhotos[k].data # NULL

\* The tracks of a dataset that have at least one point.
WithPoints(ts) == SelectSeq(ts, LAMBDA t : Len(t.points) > 0)

\* C29: exporting tracks to the archive format and importing that archive
\* reproduces, for every track with at least one point, its point sequence
\* in order with latitude and longitude not exchanged; every point is
\* written as (longitude, latitude).
C29_ArchiveTrackRoundTrip ==
    /\ cdc.pc \in {"exported", "imported"} =>
          LET lines == SelectSeq(cdc.doc[1].placemarks,
                                 LAMBDA pm : pm.geom = "LineString")
              kept == WithPoints(cdc.tracks)
          IN  /\ Len(lines) = Len(kept)
              /\ \A k \in 1..Len(lines) :
                    /\ Len(lines[k].coords) = Len(kept[k].points)
                    /\ \A j \in 1..Len(lines[k].coords) :
                          /\ lines[k].coords[j].x = kept[k].points[j].lng
                          /\ lines[k].coords[j].y = kept[k].points[j].lat
    /\ cdc.pc = "imported" =>
          /\ cdc.type = "RouteLogger"
          /\ Len(cdc.outTracks) = Len(WithPoints(cdc.tracks))
          /\ \A k \in 1..Len(cdc.outTracks) :
                /\ cdc.outTracks[k].points = WithPoints(cdc.tracks)[k].points
                /\ cdc.outTracks[k].totalPoints = Len(cdc.outTracks[k].points)

\* A track without points beside one with two points of unequal latitude
\* and longitude, exported and imported.
C29_Witness ==
    /\ cdc.pc = "imported"
    /\ Len(cdc.tracks) = 2 /\ Len(cdc.outTracks) = 1
    /\ cdc.tracks[1].points = <<>>
    /\ Len(cdc.outTracks[1].points) = 2
    /\ \E j \in 1..2 : cdc.outTracks[1].points[j].lat # cdc.outTracks[1].points[j].lng

\* C30: publishing a dataset and loading the published project back, all
\* uploads and downloads succeeding, reproduces the timestamp, location,
\* direction and caption of every photo as they were in the local store
\* before the publish, for every legal direction, signed degrees equal to 0
\* and the facing values included.
C30_PublishLoadRoundTrip ==
    (/\ ld.pc = "done" /\ ld.doc # None /\ ld.skipped = {}
     /\ ld.photosBefore = cdc.photos
     /\ Len(ld.doc[1].data.photos) = Len(cdc.photos))
    => /\ Len(photos) = Len(cdc.photos)
       /\ \A k \in 1..Len(photos) :
             /\ photos[k].timestamp = cdc.photos[k].timestamp
             /\ photos[k].location = cdc.photos[k].location
             /\ photos[k].direction = cdc.photos[k].direction
             /\ photos[k].text = cdc.photos[k].text

\* C31: the aggregate counts of the project record a publish wrote describe
\* that record: tracksCount is the number of its tracks and photosCount the
\* number of its photos, also when some photo uploads failed.
C31_CountsDescribeRecord ==
    pub.written =>
        /\ remote[pub.name].tracksCount = Len(remote[pub.name].tracks)
        /\ remote[pub.name].photosCount = Len(remote[pub.name].photos)

\* The identifiers of the rows of a store.
Ids(rows) == {rows[k].id : k \in 1..Len(rows)}

\* `after` is `before` with new rows added behind it, each under a key the
\* key generator `gen` had not yet given out, no key twice.
AddedFresh(before, after, gen) ==
    /\ Len(after) >= Len(before)
    /\ SubSeq(after, 1, Len(before)) = before
    /\ \A k \in Len(before) + 1..Len(after) : after[k].id >= gen
    /\ \A i, j \in 1..Len(after) : after[i].id = after[j].id => i = j

\* C32: every Track and Photo inserted by load or by a confirmed native
\* import is added as a new row under a fresh store-assigned identifier: the
\* rows already stored stay as they are, and no identifier is used twice.
C32_InsertsUnderFreshIds ==
    [][(ld.pc \in {"cleared", "photos"} \/ imp.pc = "cleared") =>
          /\ AddedFresh(tracks, tracks', keyGen.tracks)
          /\ AddedFresh(photos, photos', keyGen.photos)]_vars

\* A session's track was cleared by the load, and the two remote tracks came
\* in under the next two keys.
C32_Witness ==
    /\ ld.pc = "done"
    /\ Len(tracks) = 2
    /\ tracks[1].id = 2 /\ tracks[2].id = 3

\* C33: a realtime save replaces only the Track whose identifier is the
\* current session's: afterwards that Track's points are the in-memory
\* sequence in the same order, every other Track and every Photo is as it
\* was, and without a current track identifier nothing is written.
C33_RealtimeSaveFrame ==
    cdc.pc = "saved" =>
        /\ photos = cdc.photos
        /\ currentTrackId = 0 => tracks = cdc.tracks
        /\ Len(tracks) = Len(cdc.tracks)
        /\ \A k \in 1..Len(tracks) :
              IF db /\ tracks[k].id = currentTrackId
              THEN /\ tracks[k].points = trackingData
                   /\ tracks[k].totalPoints = Len(trackingData)
              ELSE tracks[k] = cdc.tracks[k]

\* The second of two stored tracks took three recorded points, not all the
\* same, the first stayed as it was.
C33_Witness ==
    /\ cdc.pc = "saved" /\ db
    /\ Len(tracks) = 2 /\ currentTrackId = 2
    /\ Len(tracks[2].points) = MaxRecorded
    /\ tracks[2].points[1] # tracks[2].points[2]
    /\ tracks[2] # cdc.tracks[2]
    /\ tracks[1] = cdc.tracks[1]

\* C34: no two writes to the same collection are in flight at once: a write
\* to the settings collection is complete before the next one is issued.
C34_OneWriteInFlight == Len(cdc.pending) <= 1

\* C35: once a full reset attempt has finished, whether it succeeded, failed
\* on a deletion error or was reported blocked, the store handle is open
\* again, for both reset entry points.
C35_HandleOpenAfterReset ==
    rs.pc = "done" /\ rs.outcome \in {"reset", "DeleteError", "StoreBlocked"} => db

\* C36: two publish operations with the same base name that interleave
\* never both write their project record under the same name.
C36_InterleavedPublishesDiffer ==
    ~(pub.written /\ cdc.written /\ pub.name = cdc.name)

\* C37: within one publish every successfully uploaded Photo is stored
\* under its own remote blob path: no two photo entries of the record
\* reference the same blob.
C37_OwnBlobPathPerPhoto ==
    \A i, j \in 1..Len(pub.formattedPhotos) :
        pub.formattedPhotos[i].storagePath = pub.formattedPhotos[j].storagePath
        => i = j

\* C38: every publish, list, load and file import that puts the UI into the
\* busy state takes it out again on every path, success, early return and
\* failure: a busy UI eventually is not busy, and the UI is not busy once no
\* operation is running.
C38_BusyIsCleared ==
    /\ [](Idle => ~uiBusy)
    /\ uiBusy ~> ~uiBusy

\* A publish whose record write failed has ended, and the UI is not busy.
C38_Witness ==
    /\ pub.pc = "done" /\ pub.outcome = "WriteFailed"
    /\ ~uiBusy

\* C39: after a load of a remote project has completed while no recording
\* is active, the Save control is disabled.
C39_SaveDisabledAfterLoad ==
    ld.pc = "done" /\ ld.doc # None /\ ~isTracking => ld.dataSaveBtnDisabled

====
